---- MODULE Spec2Model ----
(***************************************************************************)
(* Activity synchronisation and matching of the running-club backend:      *)
(* ActivitySyncUseCase, StravaIntegrationUseCase, the StravaActivity /     *)
(* StravaConnection / Customer / TrainingDay entities and the DynamoDB     *)
(* repositories they are persisted through.                                *)
(***************************************************************************)
EXTENDS Integers, Sequences, FiniteSets, TLC

(***************************************************************************)
(* Bounds of the model.                                                    *)
(***************************************************************************)
MaxOps == 2          \* calls in a behaviour of Spec
MaxBatchOps == 2     \* calls in a behaviour of SpecBatch
MaxConnOps == 3      \* calls in a behaviour of SpecConn and SpecHistory
MaxMatchOps == 3     \* calls in a behaviour of SpecMatch
MaxBatch == 2        \* length of the upstream activity list
MaxTicks == 2        \* steps of the clock
MaxDays == 2         \* training days of the plan
MaxRegOps == 3       \* registration requests in a behaviour of SpecRegister
MaxPlanOps == 3      \* calls in a behaviour of SpecPlans
MaxWebhookOps == 1   \* calls of sync_single_activity in a behaviour of SpecWebhook
MaxAccessOps == 2    \* calls of assign_customer in a behaviour of SpecAccess

(***************************************************************************)
(* Values.                                                                 *)
(***************************************************************************)
\* Python's None for an id or a pointer, and for a timestamp that is not set
None == 0
NoTime == -1
\* what reading an attribute gives when the object does not have it
AttributeError == -2
\* a start date is <<calendar date, time of day>>; BadDate is a start_date string
\* that datetime.fromisoformat rejects
BadDate == <<0, 0>>

CustomerIds == {"c1", "c2", "c3"}
Registered == {"c1", "c2"}
StravaIds == {101, 102}
StartDates == {<<1, 0>>, <<1, 1>>}
RefreshBuffer == 3600
TickSeconds == RefreshBuffer \div 2
TokenLifetimes == {1800, 7200}

MATCHED == "matched"
UNMATCHED == "unmatched"
IGNORED == "ignored"

AthleteOf(c) == IF c = "c1" THEN 11 ELSE 22

\* an activity summary of the list endpoint, an activity of the detail endpoint
ListStarts == {<<1, 0>>, BadDate}
Payloads == [id : StravaIds, start_date : ListStarts]

RECURSIVE SeqsUpTo(_, _)
SeqsUpTo(S, n) ==
    IF n = 0 THEN {<<>>}
    ELSE LET shorter == SeqsUpTo(S, n - 1)
         IN shorter \cup {Append(s, x) : s \in {t \in shorter : Len(t) = n - 1}, x \in S}

Batches == SeqsUpTo(Payloads, MaxBatch)

VARIABLES
    customers,      \* users table: customer id -> Customer record
    connections,    \* StravaAPIClient._connections: customer id -> StravaConnection
    activities,     \* activities table: set of items keyed by (PK, SK)
    plans,          \* training plans table, METADATA items: plan id -> plan
    days,           \* training plans table, DAY items
    now,            \* datetime.utcnow(), in seconds
    upstream,       \* the activity list the external source holds for the athlete
    issued,         \* number of token pairs the OAuth server has issued
    nextId,         \* number of activity ids (uuid4) handed out
    nextDay,        \* number of training day ids (uuid4) handed out
    ignored,        \* history: keys of the activities ignored and not explicitly unmatched since
    disconnected,   \* history: customers whose disconnect completed, no exchange_code since
    inflight,       \* calls that are suspended at an await: call name -> its local state
    ops,            \* budget of calls that are left
    last            \* what the last operation did: its inputs, calls and result

vars == <<customers, connections, activities, plans, days, now, upstream, issued, nextId, nextDay, ignored, disconnected, inflight, ops, last>>

(***************************************************************************)
(* Entities.                                                               *)
(***************************************************************************)
\* faulty variant of is_strava_connected: every customer counts as connected
is_strava_connected_Always(cust) == TRUE

\* Customer.is_strava_connected
is_strava_connected(cust) == cust.strava_athlete_id # None

\* Customer.connect_strava
connect_strava(cust, athlete_id, t) ==
    [cust EXCEPT !.strava_athlete_id = athlete_id, !.strava_connected_at = t]

\* faulty variant of disconnect_strava: the athlete id is left bound
disconnect_strava_KeepAthlete(cust) ==
    [cust EXCEPT !.strava_connected_at = NoTime, !.strava_last_sync = NoTime]

\* Customer.disconnect_strava
disconnect_strava(cust) ==
    [cust EXCEPT !.strava_athlete_id = None, !.strava_connected_at = NoTime,
                 !.strava_last_sync = NoTime]

\* Customer.update_last_sync
update_last_sync(cust, t) == [cust EXCEPT !.strava_last_sync = t]

\* StravaConnection.is_expired at time t
is_expired(conn, t) == t >= conn.expires_at

\* faulty variant of needs_refresh_in: a token expiring exactly at the end of the
\* buffer is not refreshed
needs_refresh_in_Strict(conn, t, buffer_seconds) == conn.expires_at < t + buffer_seconds

\* StravaConnection.needs_refresh(buffer_seconds) at time t
needs_refresh_in(conn, t, buffer_seconds) == conn.expires_at <= t + buffer_seconds

\* StravaConnection.needs_refresh() with the default buffer
needs_refresh(conn, t) == needs_refresh_in(conn, t, RefreshBuffer)

\* StravaActivity.calculate_pace_min_per_km: minutes / km as the fraction <<num, den>>,
\* or undefined (None in the code)
calculate_pace_min_per_km(distance, moving_time) ==
    IF distance > 0 /\ moving_time > 0
    THEN [defined |-> TRUE, num |-> moving_time * 1000, den |-> 60 * distance]
    ELSE [defined |-> FALSE, num |-> 0, den |-> 1]

\* faulty variant of update_tokens: only the access token is replaced
update_tokens_AccessOnly(conn, access_token, refresh_token, expires_at) ==
    [conn EXCEPT !.access_token = access_token]

\* StravaConnection.update_tokens
update_tokens(conn, access_token, refresh_token, expires_at) ==
    [conn EXCEPT !.access_token = access_token, !.refresh_token = refresh_token,
                 !.expires_at = expires_at]

\* StravaActivity.match_to_training_day
match_to_training_day(act, training_day_id) ==
    [act EXCEPT !.training_day_id = training_day_id, !.match_status = MATCHED]

\* StravaActivity.unmatch
unmatch(act) == [act EXCEPT !.training_day_id = None, !.match_status = UNMATCHED]

\* StravaActivity.ignore
ignore(act) == [act EXCEPT !.match_status = IGNORED]

(***************************************************************************)
(* Activity repository (one DynamoDB table, key = PK + SK).                *)
(***************************************************************************)
\* _to_item: PK = CUSTOMER#customer_id, SK = ACTIVITY#strava_activity_id#start_date
ItemKey(act) == <<act.customer_id, act.strava_activity_id, act.start_date>>

\* table.put_item: replaces the item with the same key
put_item(table, act) == {a \in table : ItemKey(a) # ItemKey(act)} \cup {act}

\* order of the sort key within one partition
SKBefore(a, b) ==
    \/ a.strava_activity_id < b.strava_activity_id
    \/ /\ a.strava_activity_id = b.strava_activity_id
       /\ \/ a.start_date[1] < b.start_date[1]
          \/ /\ a.start_date[1] = b.start_date[1]
             /\ a.start_date[2] < b.start_date[2]

RECURSIVE QueryOrder(_)
QueryOrder(S) ==
    IF S = {} THEN <<>>
    ELSE LET first == CHOOSE a \in S : \A b \in S \ {a} : SKBefore(a, b)
         IN <<first>> \o QueryOrder(S \ {first})

\* DynamoDBActivityRepository.get_by_strava_id: items[0] of the query, or None
get_by_strava_id(table, strava_activity_id, customer_id) ==
    LET items == QueryOrder({a \in table : /\ a.customer_id = customer_id
                                           /\ a.strava_activity_id = strava_activity_id})
    IN IF items = <<>> THEN <<>> ELSE <<items[1]>>

\* DynamoDBActivityRepository.get_unmatched_activities
get_unmatched_activities(table, customer_id) ==
    QueryOrder({a \in table : a.customer_id = customer_id /\ a.match_status = UNMATCHED})

\* ActivitySyncUseCase._strava_data_to_entity; fromisoformat raises on a bad start_date
MappingFails(data) == data.start_date = BadDate

\* StravaActivity.__init__ as _strava_data_to_entity calls it: no training day, the
\* default match status, and created_at the time of construction
StravaActivity(customer_id, strava_activity_id, start_date, id, created_at) ==
    [id |-> id, customer_id |-> customer_id, strava_activity_id |-> strava_activity_id,
     start_date |-> start_date, training_day_id |-> None, match_status |-> UNMATCHED,
     created_at |-> created_at]

strava_data_to_entity(data, customer_id, id) ==
    StravaActivity(customer_id, data.id, data.start_date, id, now)

(***************************************************************************)
(* Training plan repository.                                               *)
(***************************************************************************)
RECURSIVE SortedIds(_)
SortedIds(S) ==
    IF S = {} THEN <<>>
    ELSE LET m == CHOOSE x \in S : \A y \in S : x <= y
         IN <<m>> \o SortedIds(S \ {m})

\* faulty variant of get_by_customer_id: the scan has no customer filter
get_by_customer_id_All(customer_id) ==
    SortedIds({p \in DOMAIN plans : TRUE})

\* DynamoDBTrainingPlanRepository.get_by_customer_id: a scan, in table order
get_by_customer_id(customer_id) ==
    SortedIds({p \in DOMAIN plans : plans[p].customer_id = customer_id})

\* sorted(..., key=(date, day_order)) over the query result, which is in SK order
\* (DAY#date#id); the sort is stable, so ties are broken by id
DayBefore(a, b) ==
    \/ a.date < b.date
    \/ a.date = b.date /\ a.day_order < b.day_order
    \/ a.date = b.date /\ a.day_order = b.day_order /\ a.id < b.id

RECURSIVE SortDays(_)
SortDays(S) ==
    IF S = {} THEN <<>>
    ELSE LET first == CHOOSE a \in S : \A b \in S \ {a} : DayBefore(a, b)
         IN <<first>> \o SortDays(S \ {first})

\* DynamoDBTrainingPlanRepository.get_training_days
get_training_days(plan_id) == SortDays({d \in days : d.training_plan_id = plan_id})

\* faulty variant of matched_activity_id: the attribute exists and nothing ever sets it
matched_activity_id_None(day) == None

\* TrainingDay has no attribute matched_activity_id: reading it raises AttributeError
matched_activity_id(day) == AttributeError

(***************************************************************************)
(* Matching engine.                                                        *)
(***************************************************************************)
\* the loops of _match_single_activity: plans in lookup order, days in lookup order
RECURSIVE DaysInLookupOrder(_)
DaysInLookupOrder(planSeq) ==
    IF planSeq = <<>> THEN <<>>
    ELSE get_training_days(Head(planSeq)) \o DaysInLookupOrder(Tail(planSeq))

RECURSIVE MatchOverDays(_, _, _)
MatchOverDays(table, activity, ds) ==
    IF ds = <<>> THEN [table |-> table, result |-> "false"]
    ELSE LET day == Head(ds)
         IN IF day.date = activity.start_date[1]
            THEN IF matched_activity_id(day) = AttributeError
                 THEN [table |-> table, result |-> "raise"]
                 ELSE IF matched_activity_id(day) = None
                      THEN [table |-> put_item(table, match_to_training_day(activity, day.id)),
                            result |-> "true"]
                      ELSE MatchOverDays(table, activity, Tail(ds))
            ELSE MatchOverDays(table, activity, Tail(ds))

\* ActivitySyncUseCase._match_single_activity
match_single_activity(table, activity) ==
    MatchOverDays(table, activity, DaysInLookupOrder(get_by_customer_id(activity.customer_id)))

\* the loop of match_activities_to_training_days over the unmatched list
RECURSIVE MatchLoop(_, _)
MatchLoop(st, unmatched) ==
    IF unmatched = <<>> THEN st
    ELSE LET activity == Head(unmatched)
             r == match_single_activity(st.table, activity)
             att == st.attempted \cup {ItemKey(activity)}
         IN IF r.result = "raise"
            THEN [st EXCEPT !.result = "raise", !.attempted = att]
            ELSE MatchLoop([table |-> r.table,
                            matched_count |-> st.matched_count + (IF r.result = "true" THEN 1 ELSE 0),
                            attempted |-> att, result |-> "returned"],
                           Tail(unmatched))

\* faulty variant of match_activities_to_training_days: the sweep looks at no activity
match_activities_to_training_days_None(table, customer_id) ==
    MatchLoop([table |-> table, matched_count |-> 0, attempted |-> {}, result |-> "returned"],
              <<>>)

\* ActivitySyncUseCase.match_activities_to_training_days
match_activities_to_training_days(table, customer_id) ==
    MatchLoop([table |-> table, matched_count |-> 0, attempted |-> {}, result |-> "returned"],
              get_unmatched_activities(table, customer_id))

(***************************************************************************)
(* The batch loop of sync_activities.                                      *)
(***************************************************************************)
\* faulty variant of SyncLoop: the first failing item ends the loop
RECURSIVE SyncLoop_Abort(_, _, _, _, _)
SyncLoop_Abort(st, batch, i, customer_id, fails) ==
    IF i > Len(batch) THEN st
    ELSE LET data == batch[i]
             existing == get_by_strava_id(st.table, data.id, customer_id)
         IN IF existing # <<>>
            THEN SyncLoop_Abort(st, batch, i + 1, customer_id, fails)
            ELSE IF MappingFails(data) \/ i \in fails
                 THEN [st EXCEPT !.error_count = @ + 1]
                 ELSE LET activity == strava_data_to_entity(data, customer_id, st.nid + 1)
                      IN SyncLoop_Abort([table |-> put_item(st.table, activity),
                                         nid |-> st.nid + 1,
                                         synced_count |-> st.synced_count + 1,
                                         error_count |-> st.error_count,
                                         created |-> Append(st.created, activity.id)],
                                        batch, i + 1, customer_id, fails)

\* the for loop of sync_activities over the fetched list; fails are the positions
\* whose activity_repository.create raises
RECURSIVE SyncLoop(_, _, _, _, _)
SyncLoop(st, batch, i, customer_id, fails) ==
    IF i > Len(batch) THEN st
    ELSE LET data == batch[i]
             existing == get_by_strava_id(st.table, data.id, customer_id)
         IN IF existing # <<>>
            THEN SyncLoop(st, batch, i + 1, customer_id, fails)
            ELSE IF MappingFails(data) \/ i \in fails
                 THEN SyncLoop([st EXCEPT !.error_count = @ + 1], batch, i + 1, customer_id, fails)
                 ELSE LET activity == strava_data_to_entity(data, customer_id, st.nid + 1)
                      IN SyncLoop([table |-> put_item(st.table, activity),
                                   nid |-> st.nid + 1,
                                   synced_count |-> st.synced_count + 1,
                                   error_count |-> st.error_count,
                                   created |-> Append(st.created, activity.id)],
                                  batch, i + 1, customer_id, fails)

(***************************************************************************)
(* Bookkeeping: the record of one call.                                    *)
(***************************************************************************)
\* every call takes one unit of the budget of calls
Budget == ops > 0 /\ ops' = ops - 1

Put(map, k, v) == [x \in DOMAIN map \cup {k} |-> IF x = k THEN v ELSE map[x]]
Drop(map, k) == [x \in DOMAIN map \ {k} |-> map[x]]

AccessToken(n) == n
RefreshToken(n) == 100 + n

Ev(name, token) == [ev |-> name, token |-> token]

\* synced_count and error_count are the counters of the batch loop when it ended
\* (the caller gets them when outcome is "returned"); events are the calls made to
\* the external source and to the connection store, in order
Call(op, c) ==
    [op |-> op, cust |-> c, outcome |-> "returned", error |-> "", failed |-> "",
     fetched |-> FALSE, synced_count |-> 0, error_count |-> 0, matched_count |-> 0,
     events |-> <<>>, batch |-> <<>>, fails |-> {}, attempted |-> {}, created |-> <<>>,
     match_result |-> "", key |-> <<>>, swallowed |-> FALSE]

Raised(call, msg) == [call EXCEPT !.outcome = "raised", !.error = msg]

\* the external call named api answered with an error status or timed out
Failed(call, api) == [call EXCEPT !.outcome = "raised", !.error = "HTTPStatusError",
                                  !.failed = api]

\* the users table holds the registered customers, each assigned to coach k1
RegisteredCustomers ==
    [c \in Registered |->
        [coach_id |-> "k1", strava_athlete_id |-> None,
         strava_connected_at |-> NoTime, strava_last_sync |-> NoTime]]

\* what exchange_code leaves for customer c at time 0 with the first token pair
FirstConnection(c, life) ==
    [customer_id |-> c, athlete_id |-> AthleteOf(c),
     access_token |-> AccessToken(1), refresh_token |-> RefreshToken(1),
     expires_at |-> life, connected_at |-> 0, last_sync_at |-> NoTime]

\* what create_plan / add_training_day leave: plan 1 of coach k1 for customer c1
\* with n training days on date 1
PlanWithDays(n) ==
    [plans |-> [p \in {1} |-> [coach_id |-> "k1", customer_id |-> "c1"]],
     days |-> {[id |-> i, training_plan_id |-> 1, date |-> 1, day_order |-> 1] : i \in 1..n}]

NoPlans == [plans |-> [p \in {} |-> None], days |-> {}]

\* the connections and tokens of the empty system after construction
Fresh ==
    /\ customers = RegisteredCustomers
    /\ connections = [c \in {} |-> None]
    /\ issued = 0

\* the system after exchange_code(c1) succeeded at time 0
Connected(life) ==
    /\ customers = [RegisteredCustomers EXCEPT !["c1"] = connect_strava(@, AthleteOf("c1"), 0)]
    /\ connections = [c \in {"c1"} |-> FirstConnection("c1", life)]
    /\ issued = 1

Planned(setup) ==
    /\ plans = setup.plans
    /\ days = setup.days
    /\ nextDay = Cardinality(setup.days)

NoActivities ==
    /\ activities = {}
    /\ nextId = 0

\* the activity a first sync_activities of c1 stored when upstream held activity 101
FirstActivity == StravaActivity("c1", 101, <<1, 0>>, 1, 0)

Started ==
    /\ now = 0
    /\ ignored = {}
    /\ disconnected = {}
    /\ inflight = <<>>
    /\ last = Call("none", "")

\* Token refresh: customer c1 connected with a short or a long token lifetime, with or
\* without a plan that has a training day; upstream is one activity.
Init ==
    /\ \E life \in TokenLifetimes : Connected(life)
    /\ Planned(NoPlans) \/ Planned(PlanWithDays(1))
    /\ upstream = <<[id |-> 101, start_date |-> <<1, 0>>]>>
    /\ NoActivities
    /\ Started
    /\ ops = MaxOps

\* The batch loop: customer c1 connected with a token that needs no refresh, with or
\* without a plan that has a training day, against any list of upstream activities.
InitBatch ==
    /\ Connected(7200)
    /\ Planned(NoPlans) \/ Planned(PlanWithDays(1))
    /\ upstream \in Batches
    /\ NoActivities
    /\ Started
    /\ ops = MaxBatchOps

\* The connection lifecycle starts from the empty system.
InitConn ==
    /\ Fresh
    /\ Planned(NoPlans)
    /\ upstream = <<[id |-> 101, start_date |-> <<1, 0>>]>>
    /\ NoActivities
    /\ Started
    /\ ops = MaxConnOps

\* Disconnect after use: customer c1 connected at time 0 and a first sync_activities
\* stored activity 101; upstream holds a second activity since.
InitHistory ==
    /\ customers = [RegisteredCustomers EXCEPT
                      !["c1"] = update_last_sync(connect_strava(@, AthleteOf("c1"), 0), 0)]
    /\ connections = [c \in {"c1"} |-> FirstConnection("c1", 7200)]
    /\ issued = 1
    /\ Planned(NoPlans)
    /\ upstream = <<[id |-> 101, start_date |-> <<1, 0>>], [id |-> 102, start_date |-> <<1, 1>>]>>
    /\ activities = {FirstActivity}
    /\ nextId = 1
    /\ Started
    /\ ops = MaxConnOps

\* The matching engine: customer c1 connected, her coach created a plan with up to
\* MaxDays training days on the same date, and a first sync_activities stored
\* activity 101 of that date; upstream now holds a second activity of that date.
InitMatch ==
    /\ customers = [RegisteredCustomers EXCEPT
                      !["c1"] = update_last_sync(connect_strava(@, AthleteOf("c1"), 0), 0)]
    /\ connections = [c \in {"c1"} |-> FirstConnection("c1", 7200)]
    /\ issued = 1
    /\ \E n \in 0..MaxDays : Planned(PlanWithDays(n))
    /\ upstream = <<[id |-> 101, start_date |-> <<1, 0>>], [id |-> 102, start_date |-> <<1, 0>>]>>
    /\ activities = {FirstActivity}
    /\ nextId = 1
    /\ Started
    /\ ops = MaxMatchOps

\* Plans and activities: customer c1 connected and a first sync_activities stored
\* activity 101 of date 1; no plan exists yet; upstream holds that activity.
InitPlans ==
    /\ customers = [RegisteredCustomers EXCEPT
                      !["c1"] = update_last_sync(connect_strava(@, AthleteOf("c1"), 0), 0)]
    /\ connections = [c \in {"c1"} |-> FirstConnection("c1", 7200)]
    /\ issued = 1
    /\ Planned(NoPlans)
    /\ upstream = <<[id |-> 101, start_date |-> <<1, 0>>]>>
    /\ activities = {FirstActivity}
    /\ nextId = 1
    /\ Started
    /\ ops = MaxPlanOps

\* datetime.utcnow() moves on
Tick ==
    /\ now + TickSeconds <= MaxTicks * TickSeconds
    /\ now' = now + TickSeconds
    /\ UNCHANGED <<customers, connections, activities, plans, days, upstream, issued, nextId, nextDay, ignored, ops, last, disconnected, inflight>>

\* a new process: StravaAPIClient.__init__ starts with an empty _connections
Restart ==
    /\ DOMAIN connections # {}
    /\ connections' = [c \in {} |-> None]
    /\ last' = Call("restart", "")
    /\ UNCHANGED <<customers, activities, plans, days, now, upstream, ignored, issued, nextId, nextDay, disconnected, inflight>>
    /\ Budget

(***************************************************************************)
(* StravaIntegrationUseCase.                                               *)
(***************************************************************************)
\* StravaIntegrationUseCase.exchange_code
ExchangeCode(c) ==
    /\ UNCHANGED <<activities, plans, days, now, upstream, ignored, nextId, nextDay, inflight>>
    /\ LET call == Call("exchange_code", c)
       IN IF c \notin DOMAIN customers
          THEN /\ last' = Raised(call, "Customer not found")
               /\ UNCHANGED <<customers, connections, issued, disconnected>>
          ELSE \E ok \in BOOLEAN, life \in TokenLifetimes :
                 IF ~ok
                 THEN /\ life = 1800
                      /\ last' = [Failed(call, "exchange_token") EXCEPT
                                     !.events = <<Ev("exchange_token", None)>>]
                      /\ UNCHANGED <<customers, connections, issued, disconnected>>
                 ELSE LET connection ==
                               [customer_id |-> c, athlete_id |-> AthleteOf(c),
                                access_token |-> AccessToken(issued + 1),
                                refresh_token |-> RefreshToken(issued + 1),
                                expires_at |-> now + life,
                                connected_at |-> now, last_sync_at |-> NoTime]
                      IN /\ customers' = [customers EXCEPT
                                            ![c] = connect_strava(@, connection.athlete_id, now)]
                         /\ connections' = Put(connections, c, connection)
                         /\ issued' = issued + 1
                         /\ disconnected' = disconnected \ {c}
                         /\ last' = [call EXCEPT !.events =
                                       <<Ev("exchange_token", None),
                                         Ev("store_connection", connection.access_token)>>]
    /\ Budget

\* faulty variant of disconnect: a failed revocation is raised to the caller
Disconnect_Propagate(c) ==
    /\ UNCHANGED <<activities, plans, days, now, upstream, ignored, issued, nextId, nextDay, inflight>>
    /\ LET call == Call("disconnect", c)
       IN IF c \notin DOMAIN customers
          THEN /\ last' = Raised(call, "Customer not found")
               /\ UNCHANGED <<customers, connections, disconnected>>
          ELSE \E revoked \in BOOLEAN :
                 /\ (c \notin DOMAIN connections) => revoked
                 /\ IF revoked
                    THEN /\ customers' = [customers EXCEPT ![c] = disconnect_strava(@)]
                         /\ connections' = Drop(connections, c)
                         /\ disconnected' = disconnected \cup {c}
                         /\ last' = [call EXCEPT
                                       !.events = IF c \in DOMAIN connections
                                                  THEN <<Ev("deauthorize", connections[c].access_token)>>
                                                  ELSE <<>>]
                    ELSE /\ last' = [Failed(call, "deauthorize") EXCEPT
                                       !.events = <<Ev("deauthorize", connections[c].access_token)>>]
                         /\ UNCHANGED <<customers, connections, disconnected>>
    /\ Budget

\* StravaIntegrationUseCase.disconnect
Disconnect(c) ==
    /\ UNCHANGED <<activities, plans, days, now, upstream, ignored, issued, nextId, nextDay, inflight>>
    /\ LET call == Call("disconnect", c)
       IN IF c \notin DOMAIN customers
          THEN /\ last' = Raised(call, "Customer not found")
               /\ UNCHANGED <<customers, connections, disconnected>>
          ELSE \E revoked \in BOOLEAN :
                 /\ (c \notin DOMAIN connections) => revoked
                 /\ customers' = [customers EXCEPT ![c] = disconnect_strava(@)]
                 /\ connections' = Drop(connections, c)
                 /\ disconnected' = disconnected \cup {c}
                 /\ last' = [call EXCEPT
                               !.events = IF c \in DOMAIN connections
                                          THEN <<Ev("deauthorize", connections[c].access_token)>>
                                          ELSE <<>>,
                               !.swallowed = ~revoked]
    /\ Budget

\* faulty variant of SyncFetch: the last-sync timestamp is written only after a
\* batch without errors
SyncFetch_SkipOnError(c, call, connection, refreshEvents) ==
    LET events == refreshEvents \o <<Ev("get_athlete_activities", connection.access_token)>>
    IN \E listOk \in BOOLEAN :
         IF ~listOk
         THEN /\ last' = [Failed(call, "get_athlete_activities") EXCEPT !.events = events]
              /\ UNCHANGED <<customers, activities, nextId>>
         ELSE \E fails \in SUBSET (1..Len(upstream)) :
                LET batch == upstream
                    loop == SyncLoop([table |-> activities, nid |-> nextId,
                                      synced_count |-> 0, error_count |-> 0,
                                      created |-> <<>>],
                                     batch, 1, c, fails)
                    sweep == match_activities_to_training_days(loop.table, c)
                IN /\ customers' = IF loop.error_count = 0
                                 THEN [customers EXCEPT ![c] = update_last_sync(@, now)]
                                 ELSE customers
                   /\ activities' = sweep.table
                   /\ nextId' = loop.nid
                   /\ last' = [call EXCEPT
                                 !.outcome = IF sweep.result = "raise"
                                             THEN "raised" ELSE "returned",
                                 !.error = IF sweep.result = "raise"
                                           THEN "AttributeError" ELSE "",
                                 !.fetched = TRUE,
                                 !.synced_count = loop.synced_count,
                                 !.error_count = loop.error_count,
                                 !.matched_count = sweep.matched_count,
                                 !.events = events,
                                 !.batch = batch,
                                 !.fails = fails,
                                 !.attempted = sweep.attempted,
                                 !.created = loop.created]

\* faulty variant of SyncFetch: the last-sync timestamp is written also when the
\* list call failed
SyncFetch_TouchOnFailure(c, call, connection, refreshEvents) ==
    LET events == refreshEvents \o <<Ev("get_athlete_activities", connection.access_token)>>
    IN \E listOk \in BOOLEAN :
         IF ~listOk
         THEN /\ last' = [Failed(call, "get_athlete_activities") EXCEPT !.events = events]
              /\ customers' = [customers EXCEPT ![c] = update_last_sync(@, now)]
              /\ UNCHANGED <<activities, nextId>>
         ELSE \E fails \in SUBSET (1..Len(upstream)) :
                LET batch == upstream
                    loop == SyncLoop([table |-> activities, nid |-> nextId,
                                      synced_count |-> 0, error_count |-> 0,
                                      created |-> <<>>],
                                     batch, 1, c, fails)
                    sweep == match_activities_to_training_days(loop.table, c)
                IN /\ customers' = [customers EXCEPT ![c] = update_last_sync(@, now)]
                   /\ activities' = sweep.table
                   /\ nextId' = loop.nid
                   /\ last' = [call EXCEPT
                                 !.outcome = IF sweep.result = "raise"
                                             THEN "raised" ELSE "returned",
                                 !.error = IF sweep.result = "raise"
                                           THEN "AttributeError" ELSE "",
                                 !.fetched = TRUE,
                                 !.synced_count = loop.synced_count,
                                 !.error_count = loop.error_count,
                                 !.matched_count = sweep.matched_count,
                                 !.events = events,
                                 !.batch = batch,
                                 !.fails = fails,
                                 !.attempted = sweep.attempted,
                                 !.created = loop.created]

(***************************************************************************)
(* ActivitySyncUseCase.                                                    *)
(***************************************************************************)
\* sync_activities from the fetch on: the list call, the batch loop, the last-sync
\* update and the matching sweep; connection is the one loaded (and maybe refreshed)
SyncFetch(c, call, connection, refreshEvents) ==
    LET events == refreshEvents \o <<Ev("get_athlete_activities", connection.access_token)>>
    IN \E listOk \in BOOLEAN :
         IF ~listOk
         THEN /\ last' = [Failed(call, "get_athlete_activities") EXCEPT !.events = events]
              /\ UNCHANGED <<customers, activities, nextId>>
         ELSE \E fails \in SUBSET (1..Len(upstream)) :
                LET batch == upstream
                    loop == SyncLoop([table |-> activities, nid |-> nextId,
                                      synced_count |-> 0, error_count |-> 0,
                                      created |-> <<>>],
                                     batch, 1, c, fails)
                    sweep == match_activities_to_training_days(loop.table, c)
                IN /\ customers' = [customers EXCEPT ![c] = update_last_sync(@, now)]
                   /\ activities' = sweep.table
                   /\ nextId' = loop.nid
                   /\ last' = [call EXCEPT
                                 !.outcome = IF sweep.result = "raise"
                                             THEN "raised" ELSE "returned",
                                 !.error = IF sweep.result = "raise"
                                           THEN "AttributeError" ELSE "",
                                 !.fetched = TRUE,
                                 !.synced_count = loop.synced_count,
                                 !.error_count = loop.error_count,
                                 !.matched_count = sweep.matched_count,
                                 !.events = events,
                                 !.batch = batch,
                                 !.fails = fails,
                                 !.attempted = sweep.attempted,
                                 !.created = loop.created]

\* faulty variant of SyncConnected: a failed refresh is swallowed and the sync goes
\* on with the stored tokens
SyncConnected_Swallow(c, call) ==
    LET connection == connections[c]
    IN IF needs_refresh(connection, now)
       THEN \E refreshOk \in BOOLEAN :
              IF ~refreshOk
              THEN /\ UNCHANGED <<connections, issued>>
                   /\ SyncFetch(c, [call EXCEPT !.failed = "refresh_token"], connection,
                                <<Ev("refresh_token", connection.refresh_token)>>)
              ELSE \E life \in TokenLifetimes :
                     LET refreshed == update_tokens(connection, AccessToken(issued + 1),
                                                    RefreshToken(issued + 1), now + life)
                     IN /\ connections' = Put(connections, c, refreshed)
                        /\ issued' = issued + 1
                        /\ SyncFetch(c, call, refreshed,
                                     <<Ev("refresh_token", connection.refresh_token),
                                       Ev("update_tokens", refreshed.access_token),
                                       Ev("store_connection", refreshed.access_token)>>)
       ELSE /\ UNCHANGED <<connections, issued>>
            /\ SyncFetch(c, call, connection, <<>>)

\* sync_activities from the refresh step on (the customer is connected, the connection exists)
SyncConnected(c, call) ==
    LET connection == connections[c]
    IN IF needs_refresh(connection, now)
       THEN \E refreshOk \in BOOLEAN :
              IF ~refreshOk
              THEN /\ last' = [Failed(call, "refresh_token") EXCEPT
                                 !.events = <<Ev("refresh_token", connection.refresh_token)>>]
                   /\ UNCHANGED <<customers, connections, activities, issued, nextId>>
              ELSE \E life \in TokenLifetimes :
                     LET refreshed == update_tokens(connection, AccessToken(issued + 1),
                                                    RefreshToken(issued + 1), now + life)
                     IN /\ connections' = Put(connections, c, refreshed)
                        /\ issued' = issued + 1
                        /\ SyncFetch(c, call, refreshed,
                                     <<Ev("refresh_token", connection.refresh_token),
                                       Ev("update_tokens", refreshed.access_token),
                                       Ev("store_connection", refreshed.access_token)>>)
       ELSE /\ UNCHANGED <<connections, issued>>
            /\ SyncFetch(c, call, connection, <<>>)

\* ActivitySyncUseCase.sync_activities
SyncActivities(c) ==
    /\ UNCHANGED <<plans, days, now, upstream, ignored, nextDay, disconnected, inflight>>
    /\ LET call == Call("sync_activities", c)
       IN IF c \notin DOMAIN customers
          THEN /\ last' = Raised(call, "Customer not found")
               /\ UNCHANGED <<customers, connections, activities, issued, nextId>>
          ELSE IF ~is_strava_connected(customers[c])
          THEN /\ last' = Raised(call, "Customer not connected to Strava")
               /\ UNCHANGED <<customers, connections, activities, issued, nextId>>
          ELSE IF c \notin DOMAIN connections
          THEN /\ last' = Raised(call, "Connection not found")
               /\ UNCHANGED <<customers, connections, activities, issued, nextId>>
          ELSE SyncConnected(c, call)
    /\ Budget

\* ActivitySyncUseCase.sync_single_activity
SyncSingleActivity(c, strava_activity_id) ==
    /\ UNCHANGED <<customers, connections, plans, days, now, upstream, ignored, issued, nextDay, disconnected, inflight>>
    /\ LET call == [Call("sync_single_activity", c) EXCEPT !.key = <<strava_activity_id>>]
       IN IF c \notin DOMAIN customers \/ ~is_strava_connected(customers[c])
          THEN /\ last' = Raised(call, "Customer not connected to Strava")
               /\ UNCHANGED <<activities, nextId>>
          ELSE IF c \notin DOMAIN connections
          THEN /\ last' = Raised(call, "Connection not found")
               /\ UNCHANGED <<activities, nextId>>
          ELSE \E detailOk \in BOOLEAN, start \in StartDates \cup {BadDate}, stored \in BOOLEAN :
                 LET events == <<Ev("get_activity_detail", connections[c].access_token)>>
                     data == [id |-> strava_activity_id, start_date |-> start]
                     existing == get_by_strava_id(activities, strava_activity_id, c)
                     fetchedCall == [call EXCEPT !.events = events, !.batch = <<data>>,
                                                 !.fetched = TRUE]
                 IN IF ~detailOk
                    THEN /\ start = BadDate /\ stored
                         /\ last' = [Failed(call, "get_activity_detail") EXCEPT !.events = events]
                         /\ UNCHANGED <<activities, nextId>>
                    ELSE IF MappingFails(data)
                    THEN /\ stored
                         /\ last' = Raised(fetchedCall, "ValueError")
                         /\ UNCHANGED <<activities, nextId>>
                    ELSE IF ~stored
                    THEN /\ last' = Raised([fetchedCall EXCEPT !.fails = {1}], "ClientError")
                         /\ UNCHANGED <<activities, nextId>>
                    ELSE IF existing # <<>>
                    THEN LET activity == strava_data_to_entity(data, c, existing[1].id)
                         IN /\ activities' = put_item(activities, activity)
                            /\ last' = [fetchedCall EXCEPT !.key = ItemKey(activity)]
                            /\ UNCHANGED nextId
                    ELSE LET activity == strava_data_to_entity(data, c, nextId + 1)
                             m == match_single_activity(put_item(activities, activity), activity)
                         IN /\ activities' = m.table
                            /\ nextId' = nextId + 1
                            /\ last' = [fetchedCall EXCEPT
                                          !.outcome = IF m.result = "raise"
                                                      THEN "raised" ELSE "returned",
                                          !.error = IF m.result = "raise"
                                                    THEN "AttributeError" ELSE "",
                                          !.synced_count = 1,
                                          !.created = <<activity.id>>,
                                          !.attempted = {ItemKey(activity)},
                                          !.match_result = m.result,
                                          !.key = ItemKey(activity)]
    /\ Budget

\* ActivitySyncUseCase.match_activities_to_training_days, called on its own
MatchActivities(c) ==
    /\ UNCHANGED <<customers, connections, plans, days, now, upstream, ignored, issued, nextId, nextDay, disconnected, inflight>>
    /\ LET sweep == match_activities_to_training_days(activities, c)
       IN /\ activities' = sweep.table
          /\ last' = [Call("match_activities_to_training_days", c) EXCEPT
                        !.outcome = IF sweep.result = "raise" THEN "raised" ELSE "returned",
                        !.error = IF sweep.result = "raise" THEN "AttributeError" ELSE "",
                        !.matched_count = sweep.matched_count,
                        !.attempted = sweep.attempted]
    /\ Budget

(***************************************************************************)
(* TrainingPlanUseCase.                                                    *)
(***************************************************************************)
CoachIds == {"k1", "k2"}
PlanIds == {1, 2}
PlanDates == {1, 2}

\* uuid4() of a new TrainingPlan: an id no stored plan has
NewPlanId == IF DOMAIN plans = {} THEN 1
             ELSE 1 + CHOOSE p \in DOMAIN plans : \A q \in DOMAIN plans : q <= p

\* TrainingDay(...) + DynamoDBTrainingPlanRepository.add_training_day, for each date
\* of the sequence in order; the ids follow first
DaysOf(plan_id, dates, first) ==
    {[id |-> first + i, training_plan_id |-> plan_id, date |-> dates[i], day_order |-> 1] :
        i \in 1..Len(dates)}

\* DynamoDBTrainingPlanRepository.delete: the METADATA item and every DAY item of the plan
delete(plan_id) ==
    [plans |-> Drop(plans, plan_id), days |-> {d \in days : d.training_plan_id # plan_id}]

\* TrainingPlanUseCase.create_plan
CreatePlan(coach_id, customer_id, dates) ==
    /\ UNCHANGED <<customers, connections, activities, now, upstream, issued, nextId, ignored, disconnected, inflight>>
    /\ LET call == Call("create_plan", customer_id)
       IN IF customer_id \notin DOMAIN customers
          THEN /\ last' = Raised(call, "Customer not found")
               /\ UNCHANGED <<plans, days, nextDay>>
          ELSE IF customers[customer_id].coach_id # coach_id
          THEN /\ last' = Raised(call, "Customer is not assigned to this coach")
               /\ UNCHANGED <<plans, days, nextDay>>
          ELSE /\ plans' = Put(plans, NewPlanId, [coach_id |-> coach_id, customer_id |-> customer_id])
               /\ days' = days \cup DaysOf(NewPlanId, dates, nextDay)
               /\ nextDay' = nextDay + Len(dates)
               /\ last' = [call EXCEPT !.key = <<NewPlanId>>]
    /\ Budget

\* TrainingPlanUseCase.add_training_day
AddTrainingDay(plan_id, coach_id, date) ==
    /\ UNCHANGED <<customers, connections, activities, now, upstream, issued, nextId, ignored, disconnected, inflight>>
    /\ LET call == [Call("add_training_day", "") EXCEPT !.key = <<plan_id>>]
       IN IF plan_id \notin DOMAIN plans
          THEN /\ last' = Raised(call, "Training plan not found")
               /\ UNCHANGED <<plans, days, nextDay>>
          ELSE IF plans[plan_id].coach_id # coach_id
          THEN /\ last' = Raised(call, "You can only modify your own training plans")
               /\ UNCHANGED <<plans, days, nextDay>>
          ELSE /\ days' = days \cup DaysOf(plan_id, <<date>>, nextDay)
               /\ nextDay' = nextDay + 1
               /\ last' = [call EXCEPT !.cust = plans[plan_id].customer_id]
               /\ UNCHANGED plans
    /\ Budget

\* TrainingPlanUseCase.delete_plan
DeletePlan(plan_id, coach_id) ==
    /\ UNCHANGED <<customers, connections, activities, now, upstream, issued, nextId, nextDay, ignored, disconnected, inflight>>
    /\ LET call == [Call("delete_plan", "") EXCEPT !.key = <<plan_id>>]
       IN IF plan_id \notin DOMAIN plans
          THEN /\ last' = Raised(call, "Training plan not found")
               /\ UNCHANGED <<plans, days>>
          ELSE IF plans[plan_id].coach_id # coach_id
          THEN /\ last' = Raised(call, "You can only delete your own training plans")
               /\ UNCHANGED <<plans, days>>
          ELSE /\ plans' = delete(plan_id).plans
               /\ days' = delete(plan_id).days
               /\ last' = [call EXCEPT !.cust = plans[plan_id].customer_id]
    /\ Budget

(***************************************************************************)
(* Transitions of one persisted activity: the entity method, then          *)
(* DynamoDBActivityRepository.update.                                      *)
(***************************************************************************)
\* StravaActivity.match_to_training_day + update
MatchToTrainingDay(a, d) ==
    /\ activities' = put_item(activities, match_to_training_day(a, d.id))
    /\ ignored' = ignored \ {ItemKey(a)}
    /\ last' = [Call("match_to_training_day", a.customer_id) EXCEPT !.key = ItemKey(a)]
    /\ UNCHANGED <<customers, connections, plans, days, now, upstream, issued, nextId, nextDay, disconnected, inflight>>
    /\ Budget

\* StravaActivity.unmatch + update
Unmatch(a) ==
    /\ activities' = put_item(activities, unmatch(a))
    /\ ignored' = ignored \ {ItemKey(a)}
    /\ last' = [Call("unmatch", a.customer_id) EXCEPT !.key = ItemKey(a)]
    /\ UNCHANGED <<customers, connections, plans, days, now, upstream, issued, nextId, nextDay, disconnected, inflight>>
    /\ Budget

\* StravaActivity.ignore + update
Ignore(a) ==
    /\ activities' = put_item(activities, ignore(a))
    /\ ignored' = ignored \cup {ItemKey(a)}
    /\ last' = [Call("ignore", a.customer_id) EXCEPT !.key = ItemKey(a)]
    /\ UNCHANGED <<customers, connections, plans, days, now, upstream, issued, nextId, nextDay, disconnected, inflight>>
    /\ Budget

(***************************************************************************)
(* Webhook endpoints (presentation/api/v1/webhooks.py) and the pure        *)
(* functions of the entities, applied to inputs drawn from small sets.     *)
(***************************************************************************)
\* settings.strava_webhook_verify_token
VerifyToken == "STRAVA_WEBHOOK_SECRET"

HubModes == {"subscribe", "unsubscribe", ""}
HubTokens == {VerifyToken, "stale-secret", ""}
Challenges == {"abc", "15f7d1a91c1f40f8", "", "subscribe"}

\* an HTTP response: body is <<>> when the response carries an error detail
Response(status_code, detail, body) ==
    [status_code |-> status_code, detail |-> detail, body |-> body]

\* faulty variant of verify_strava_webhook: the token is compared before the mode
verify_strava_webhook_TokenFirst(hub_mode, hub_verify_token, hub_challenge) ==
    IF hub_verify_token # VerifyToken
    THEN Response(403, "Invalid verify_token", <<>>)
    ELSE IF hub_mode # "subscribe"
    THEN Response(400, "Invalid hub.mode", <<>>)
    ELSE Response(200, "", <<[hub_challenge |-> hub_challenge]>>)

\* verify_strava_webhook (GET /webhooks/strava)
verify_strava_webhook(hub_mode, hub_verify_token, hub_challenge) ==
    IF hub_mode # "subscribe"
    THEN Response(400, "Invalid hub.mode", <<>>)
    ELSE IF hub_verify_token # VerifyToken
    THEN Response(403, "Invalid verify_token", <<>>)
    ELSE Response(200, "", <<[hub_challenge |-> hub_challenge]>>)

ObjectTypes == {"activity", "athlete", ""}
AspectTypes == {"create", "update", "delete", "deauthorize"}
ObjectIds == {101, 102, 103}
OwnerIds == {11, 22}

\* WebhookEventRequest: the fields the handler reads, and the owner
Events == [object_type : ObjectTypes, aspect_type : AspectTypes,
           object_id : ObjectIds, owner_id : OwnerIds]

\* faulty variant of handle_strava_webhook: a delete event is taken as actionable
handle_strava_webhook_Delete(event) ==
    IF event.object_type # "activity"
    THEN Response(200, "", <<[status |-> "ignored", reason |-> "not an activity event",
                              event_type |-> "", activity_id |-> None]>>)
    ELSE IF event.aspect_type \notin {"create", "update", "delete"}
    THEN Response(200, "", <<[status |-> "ignored", reason |-> "not a create/update event",
                              event_type |-> "", activity_id |-> None]>>)
    ELSE Response(200, "", <<[status |-> "received", reason |-> "",
                              event_type |-> event.aspect_type,
                              activity_id |-> event.object_id]>>)

\* handle_strava_webhook (POST /webhooks/strava)
handle_strava_webhook(event) ==
    IF event.object_type # "activity"
    THEN Response(200, "", <<[status |-> "ignored", reason |-> "not an activity event",
                              event_type |-> "", activity_id |-> None]>>)
    ELSE IF event.aspect_type \notin {"create", "update"}
    THEN Response(200, "", <<[status |-> "ignored", reason |-> "not a create/update event",
                              event_type |-> "", activity_id |-> None]>>)
    ELSE Response(200, "", <<[status |-> "received", reason |-> "",
                              event_type |-> event.aspect_type,
                              activity_id |-> event.object_id]>>)

\* what a handler or a pure function was given and what it answered
Answer(op, request, response) == [op |-> op, request |-> request, response |-> response]

\* a request to GET /webhooks/strava
VerifyStravaWebhook ==
    /\ \E hub_mode \in HubModes, hub_verify_token \in HubTokens, hub_challenge \in Challenges :
         last' = Answer("verify_strava_webhook",
                        [hub_mode |-> hub_mode, hub_verify_token |-> hub_verify_token,
                         hub_challenge |-> hub_challenge],
                        verify_strava_webhook(hub_mode, hub_verify_token, hub_challenge))
    /\ UNCHANGED <<customers, connections, activities, plans, days, now, upstream, issued, nextId, nextDay, ignored, ops, disconnected, inflight>>

\* faulty variant of HandleStravaWebhook: for an event it answers "received" it looks
\* up the customer bound to the owner and stores the activity
HandleStravaWebhook_Sync ==
    /\ \E event \in Events :
         LET response == handle_strava_webhook(event)
             owners == {c \in DOMAIN customers : customers[c].strava_athlete_id = event.owner_id}
         IN /\ last' = Answer("handle_strava_webhook", event, response)
            /\ IF response.body[1].status = "received" /\ owners # {}
               THEN \E c \in owners :
                      /\ activities' = put_item(activities,
                                                strava_data_to_entity([id |-> event.object_id,
                                                                       start_date |-> <<1, 0>>],
                                                                      c, nextId + 1))
                      /\ nextId' = nextId + 1
               ELSE UNCHANGED <<activities, nextId>>
    /\ UNCHANGED <<customers, connections, plans, days, now, upstream, issued, nextDay, ignored, ops, disconnected, inflight>>

\* a request to POST /webhooks/strava with a well-formed event
HandleStravaWebhook ==
    /\ \E event \in Events :
         last' = Answer("handle_strava_webhook", event, handle_strava_webhook(event))
    /\ UNCHANGED <<customers, connections, activities, plans, days, now, upstream, issued, nextId, nextDay, ignored, ops, disconnected, inflight>>

ExpiryTimes == {0, 1800, 3599, 3600, 3601, 7200}
ClockTimes == {0, 1, 1800, 3600, 7200}
BufferSeconds == {0, 1800, RefreshBuffer}

\* needs_refresh(buffer_seconds) and is_expired() of a connection at some time
NeedsRefresh ==
    /\ \E expires_at \in ExpiryTimes, t \in ClockTimes, buffer_seconds \in BufferSeconds :
         LET conn == [FirstConnection("c1", 0) EXCEPT !.expires_at = expires_at]
         IN last' = Answer("needs_refresh",
                           [expires_at |-> expires_at, now |-> t,
                            buffer_seconds |-> buffer_seconds],
                           [needs_refresh |-> needs_refresh_in(conn, t, buffer_seconds),
                            needs_refresh_default |-> needs_refresh(conn, t),
                            is_expired |-> is_expired(conn, t)])
    /\ UNCHANGED <<customers, connections, activities, plans, days, now, upstream, issued, nextId, nextDay, ignored, ops, disconnected, inflight>>

Distances == {-1000, 0, 1, 1000, 8000}
MovingTimes == {-60, 0, 1, 60, 2400}

\* calculate_pace_min_per_km of an activity with some distance (m) and moving time (s)
CalculatePace ==
    /\ \E distance \in Distances, moving_time \in MovingTimes :
         last' = Answer("calculate_pace_min_per_km",
                        [distance |-> distance, moving_time |-> moving_time],
                        calculate_pace_min_per_km(distance, moving_time))
    /\ UNCHANGED <<customers, connections, activities, plans, days, now, upstream, issued, nextId, nextDay, ignored, ops, disconnected, inflight>>

\* The handlers and pure functions are applied in the empty system.
InitPure ==
    /\ Fresh
    /\ Planned(NoPlans)
    /\ upstream = <<>>
    /\ NoActivities
    /\ Started
    /\ ops = 0

NextPure ==
    \/ VerifyStravaWebhook
    \/ HandleStravaWebhook
    \/ NeedsRefresh
    \/ CalculatePace

SpecPure == InitPure /\ [][NextPure]_vars

\* Webhook events arrive while customer c1 is connected and a first sync_activities
\* stored activity 101; activities are also fetched one by one.
InitWebhook ==
    /\ customers = [RegisteredCustomers EXCEPT
                      !["c1"] = update_last_sync(connect_strava(@, AthleteOf("c1"), 0), 0)]
    /\ connections = [c \in {"c1"} |-> FirstConnection("c1", 7200)]
    /\ issued = 1
    /\ Planned(NoPlans)
    /\ upstream = <<[id |-> 101, start_date |-> <<1, 0>>], [id |-> 102, start_date |-> <<1, 1>>]>>
    /\ activities = {FirstActivity}
    /\ nextId = 1
    /\ Started
    /\ ops = MaxWebhookOps

NextWebhook ==
    \/ HandleStravaWebhook
    \/ \E c \in CustomerIds, sid \in StravaIds : SyncSingleActivity(c, sid)

SpecWebhook == InitWebhook /\ [][NextWebhook]_vars

(***************************************************************************)
(* Reading one activity (ActivitySyncUseCase.get_activity_by_id behind     *)
(* GET /strava/activities/{activity_id}) and CoachUseCase.assign_customer.  *)
(***************************************************************************)
\* Customer.coach_id of a customer no coach is assigned to
NoCoach == ""

UserTypes == {"customer", "coach", "admin"}
UserIds == CustomerIds \cup CoachIds
ActivityIds == {1, 2, 3, 4}

\* ActivitySyncUseCase._entity_to_dto
entity_to_dto(activity) ==
    [id |-> activity.id, customer_id |-> activity.customer_id,
     strava_activity_id |-> activity.strava_activity_id, start_date |-> activity.start_date,
     training_day_id |-> activity.training_day_id, match_status |-> activity.match_status,
     created_at |-> activity.created_at]

\* faulty variant of get_activity_by_id: a coach is not checked against the customer
get_activity_by_id_AnyCoach(table, users, activity_id, requesting_user_id, requesting_user_type) ==
    LET items == {a \in table : a.id = activity_id}
    IN IF items = {} THEN <<>>
       ELSE LET activity == CHOOSE a \in items : TRUE
            IN IF requesting_user_type = "customer"
               THEN IF activity.customer_id # requesting_user_id
                    THEN <<>> ELSE <<entity_to_dto(activity)>>
               ELSE IF requesting_user_type = "coach"
               THEN IF activity.customer_id \notin DOMAIN users
                    THEN <<>> ELSE <<entity_to_dto(activity)>>
               ELSE <<>>

\* ActivitySyncUseCase.get_activity_by_id: <<>> is None, <<dto>> the activity
get_activity_by_id(table, users, activity_id, requesting_user_id, requesting_user_type) ==
    LET items == {a \in table : a.id = activity_id}
    IN IF items = {} THEN <<>>
       ELSE LET activity == CHOOSE a \in items : TRUE
            IN IF requesting_user_type = "customer"
               THEN IF activity.customer_id # requesting_user_id
                    THEN <<>> ELSE <<entity_to_dto(activity)>>
               ELSE IF requesting_user_type = "coach"
               THEN IF \/ activity.customer_id \notin DOMAIN users
                       \/ users[activity.customer_id].coach_id # requesting_user_id
                    THEN <<>> ELSE <<entity_to_dto(activity)>>
               ELSE <<>>

\* a call of get_activity_by_id
GetActivityById ==
    /\ \E activity_id \in ActivityIds, requesting_user_id \in UserIds,
          requesting_user_type \in UserTypes :
         last' = Answer("get_activity_by_id",
                        [activity_id |-> activity_id, requesting_user_id |-> requesting_user_id,
                         requesting_user_type |-> requesting_user_type],
                        get_activity_by_id(activities, customers, activity_id,
                                           requesting_user_id, requesting_user_type))
    /\ UNCHANGED <<customers, connections, activities, plans, days, now, upstream, issued, nextId, nextDay, ignored, ops, disconnected, inflight>>

\* CoachUseCase.assign_customer, called by coach_id for themselves (the coach exists)
AssignCustomer(coach_id, customer_id) ==
    /\ UNCHANGED <<connections, activities, plans, days, now, upstream, issued, nextId, nextDay, ignored, disconnected, inflight>>
    /\ LET call == [Call("assign_customer", customer_id) EXCEPT !.key = <<coach_id>>]
       IN IF customer_id \notin DOMAIN customers
          THEN /\ last' = Raised(call, "Customer not found")
               /\ UNCHANGED customers
          ELSE /\ customers' = [customers EXCEPT ![customer_id].coach_id = coach_id]
               /\ last' = call
    /\ Budget

\* Customers c1 (of coach k1) and c2 (no coach) each have one stored activity; a
\* third activity belongs to a customer who is not in the users table.
InitAccess ==
    /\ customers = [RegisteredCustomers EXCEPT !["c2"].coach_id = NoCoach]
    /\ connections = [c \in {} |-> None]
    /\ issued = 0
    /\ Planned(NoPlans)
    /\ upstream = <<>>
    /\ activities = {StravaActivity("c1", 101, <<1, 0>>, 1, 0),
                     StravaActivity("c2", 102, <<1, 0>>, 2, 0),
                     StravaActivity("c3", 103, <<1, 1>>, 3, 0)}
    /\ nextId = Cardinality(activities)
    /\ Started
    /\ ops = MaxAccessOps

NextAccess ==
    \/ GetActivityById
    \/ \E k \in CoachIds, c \in CustomerIds : AssignCustomer(k, c)

SpecAccess == InitAccess /\ [][NextAccess]_vars

(***************************************************************************)
(* Customer registration (CustomerUseCase.register behind POST             *)
(* /auth/register/customer).                                               *)
(***************************************************************************)
\* the parameters User.__init__ declares, and those without a default
UserInitParams ==
    {"email", "hashed_password", "name", "document_number", "date_of_birth", "phone",
     "nickname", "runner_level", "training_availability", "challenge_next_month",
     "is_active", "id"}
UserInitRequired ==
    {"email", "hashed_password", "name", "document_number", "date_of_birth", "phone"}

\* the keywords Customer.__init__ passes to super().__init__
CustomerSuperKeywords ==
    {"email", "hashed_password", "name", "phone", "date_of_birth", "user_type",
     "nickname", "is_active", "id"}

\* Python binds the keywords of a call to the parameters: an unexpected keyword
\* or a missing required parameter raises TypeError
CustomerInitRaises ==
    \/ CustomerSuperKeywords \ UserInitParams # {}
    \/ UserInitRequired \ CustomerSuperKeywords # {}

Emails == {"ana@example.com", "bia@example.com", "caio@example.com", "test@example.com"}
DocumentNumbers == {"111.111.111-11", "222.222.222-22", "333.333.333-33", "123.456.789-00"}
Names == {"Ana", "Bia", "Test User"}

\* CreateCustomerDTO: the fields the claim is about
CustomerDtos == [email : Emails, document_number : DocumentNumbers, name : Names]

\* DynamoDBCustomerRepository.get_by_email / get_by_document_number: the ids of the
\* matching items of the users table
get_by_email(table, email) == {c \in DOMAIN table : table[c].email = email}
get_by_document_number(table, document_number) ==
    {c \in DOMAIN table : table[c].document_number = document_number}

\* register_customer: CustomerUseCase.register(dto) and the endpoint's answer.
\* A matching item is turned into a Customer by _from_item before register sees
\* it; a new customer is constructed before it is stored.
RegisterCustomer(dto) ==
    /\ LET by_email == get_by_email(customers, dto.email)
           by_doc == get_by_document_number(customers, dto.document_number)
           typeError == Response(500, "Internal server error", <<>>)
       IN IF by_email # {}
          THEN /\ last' = Answer("register_customer", dto,
                                 IF CustomerInitRaises THEN typeError
                                 ELSE Response(400, "User with this email already exists", <<>>))
               /\ UNCHANGED customers
          ELSE IF by_doc # {}
          THEN /\ last' = Answer("register_customer", dto,
                                 IF CustomerInitRaises THEN typeError
                                 ELSE Response(400, "CPF already registered", <<>>))
               /\ UNCHANGED customers
          ELSE IF CustomerInitRaises
          THEN /\ last' = Answer("register_customer", dto, typeError)
               /\ UNCHANGED customers
          ELSE \E id \in CustomerIds \ DOMAIN customers :
                 LET customer == [email |-> dto.email, document_number |-> dto.document_number,
                                  name |-> dto.name, coach_id |-> None,
                                  strava_athlete_id |-> None, strava_connected_at |-> NoTime,
                                  strava_last_sync |-> NoTime]
                 IN /\ customers' = Put(customers, id, customer)
                    /\ last' = Answer("register_customer", dto,
                                      Response(201, "", <<[id |-> id, email |-> customer.email,
                                                           name |-> customer.name,
                                                           document_number |-> customer.document_number]>>))
    /\ UNCHANGED <<connections, activities, plans, days, now, upstream, issued, nextId, nextDay, ignored, disconnected, inflight>>
    /\ Budget

\* Registration starts with an empty users table.
InitRegister ==
    /\ customers = [c \in {} |-> None]
    /\ connections = [c \in {} |-> None]
    /\ issued = 0
    /\ Planned(NoPlans)
    /\ upstream = <<>>
    /\ NoActivities
    /\ Started
    /\ ops = MaxRegOps

NextRegister == \E dto \in CustomerDtos : RegisterCustomer(dto)

SpecRegister == InitRegister /\ [][NextRegister]_vars

(***************************************************************************)
(* Concurrent calls.  A coroutine is suspended where it awaits the HTTP     *)
(* client (httpx); the repositories call boto3 synchronously, so within    *)
(* one event loop nothing runs between two repository calls of a           *)
(* coroutine.  Two workers (Lambda containers, uvicorn processes) share    *)
(* the DynamoDB tables only and interleave at every call to them.          *)
(***************************************************************************)
CallNames == {"r1", "r2"}

\* the local variables of a call of sync_activities or refresh_access_token
Locals(op, c) ==
    [op |-> op, cust |-> c, pc |-> "start", outcome |-> "suspended", error |-> "",
     customer |-> <<>>, token |-> None, submitted |-> None, batch |-> <<>>, i |-> 1,
     synced_count |-> 0, error_count |-> 0, matched_count |-> 0,
     created |-> <<>>]

Done(loc, outcome, error) == [loc EXCEPT !.pc = "done", !.outcome = outcome, !.error = error]

\* the record of the step a call has just made
StepOf(loc) ==
    [Call(loc.op, loc.cust) EXCEPT !.outcome = loc.outcome, !.error = loc.error,
                                   !.synced_count = loc.synced_count,
                                   !.error_count = loc.error_count,
                                   !.matched_count = loc.matched_count]

\* sync_activities / refresh_access_token up to the first await of the HTTP client:
\* the checks, get_connection, needs_refresh, and the request sent
Begin(p, op, c) ==
    /\ p \notin DOMAIN inflight
    /\ LET loc == Locals(op, c)
           next ==
             IF c \notin DOMAIN customers
             THEN Done(loc, "raised", "Customer not found")
             ELSE IF ~is_strava_connected(customers[c])
             THEN Done(loc, "raised", "Customer not connected to Strava")
             ELSE IF c \notin DOMAIN connections
             THEN Done(loc, "raised", "Connection not found")
             ELSE IF needs_refresh(connections[c], now)
             THEN [loc EXCEPT !.pc = "refresh", !.customer = <<customers[c]>>,
                              !.submitted = connections[c].refresh_token]
             ELSE IF op = "sync_activities"
             THEN [loc EXCEPT !.pc = "list", !.customer = <<customers[c]>>,
                              !.token = connections[c].access_token]
             ELSE Done([loc EXCEPT !.customer = <<customers[c]>>], "returned", "")
       IN /\ inflight' = Put(inflight, p, next)
          /\ last' = StepOf(next)
    /\ UNCHANGED <<customers, connections, activities, plans, days, now, upstream, issued, nextId, nextDay, ignored, disconnected, ops>>

\* the token endpoint answered the refresh request of call p: update_tokens on the
\* stored connection object and store_connection, then the call goes on
RefreshDone(p) ==
    /\ p \in DOMAIN inflight
    /\ inflight[p].pc = "refresh"
    /\ LET loc == inflight[p]
           c == loc.cust
       IN \E refreshOk \in BOOLEAN :
            IF ~refreshOk \/ c \notin DOMAIN connections
            THEN /\ ~refreshOk
                 /\ inflight' = Put(inflight, p, Done(loc, "raised", "HTTPStatusError"))
                 /\ last' = [StepOf(Done(loc, "raised", "HTTPStatusError")) EXCEPT
                               !.failed = "refresh_token"]
                 /\ UNCHANGED <<connections, issued>>
            ELSE \E life \in TokenLifetimes :
                   LET refreshed == update_tokens(connections[c], AccessToken(issued + 1),
                                                  RefreshToken(issued + 1), now + life)
                       next == IF loc.op = "sync_activities"
                               THEN [loc EXCEPT !.pc = "list", !.token = refreshed.access_token]
                               ELSE Done(loc, "returned", "")
                   IN /\ connections' = Put(connections, c, refreshed)
                      /\ issued' = issued + 1
                      /\ inflight' = Put(inflight, p, next)
                      /\ last' = StepOf(next)
    /\ UNCHANGED <<customers, activities, plans, days, now, upstream, nextId, nextDay, ignored, disconnected, ops>>

\* the external source answered the list request of call p, and the call runs to
\* its end within its event loop: batch loop, last-sync update, matching sweep
ListDone(p) ==
    /\ p \in DOMAIN inflight
    /\ inflight[p].pc = "list"
    /\ LET loc == inflight[p]
           c == loc.cust
       IN /\ SyncFetch(c, Call(loc.op, c),
                       [FirstConnection(c, 0) EXCEPT !.access_token = loc.token], <<>>)
          /\ inflight' = Put(inflight, p,
                             [Done(loc, last'.outcome, last'.error) EXCEPT
                                !.synced_count = last'.synced_count,
                                !.error_count = last'.error_count,
                                !.matched_count = last'.matched_count,
                                !.created = last'.created])
    /\ UNCHANGED <<connections, plans, days, now, upstream, issued, nextDay, ignored, disconnected, ops>>

\* the external source answered the list request of call p, which starts its loop
ListFetched(p) ==
    /\ p \in DOMAIN inflight
    /\ inflight[p].pc = "list"
    /\ LET loc == inflight[p]
       IN \E listOk \in BOOLEAN :
            LET next == IF listOk
                        THEN [loc EXCEPT !.pc = "check", !.batch = upstream, !.i = 1]
                        ELSE Done(loc, "raised", "HTTPStatusError")
            IN /\ inflight' = Put(inflight, p, next)
               /\ last' = [StepOf(next) EXCEPT
                             !.failed = IF listOk THEN "" ELSE "get_athlete_activities"]
    /\ UNCHANGED <<customers, connections, activities, plans, days, now, upstream, issued, nextId, nextDay, ignored, disconnected, ops>>

\* activity_repository.get_by_strava_id for item i of the batch of call p
CheckExisting(p) ==
    /\ p \in DOMAIN inflight
    /\ inflight[p].pc = "check"
    /\ inflight[p].i <= Len(inflight[p].batch)
    /\ LET loc == inflight[p]
           data == loc.batch[loc.i]
           existing == get_by_strava_id(activities, data.id, loc.cust)
           next == IF existing # <<>>
                   THEN [loc EXCEPT !.i = @ + 1]
                   ELSE [loc EXCEPT !.pc = "create"]
       IN /\ inflight' = Put(inflight, p, next)
          /\ last' = StepOf(next)
    /\ UNCHANGED <<customers, connections, activities, plans, days, now, upstream, issued, nextId, nextDay, ignored, disconnected, ops>>

\* _strava_data_to_entity and activity_repository.create for item i of the batch of
\* call p, which found no stored activity with that id
CreateActivity(p) ==
    /\ p \in DOMAIN inflight
    /\ inflight[p].pc = "create"
    /\ LET loc == inflight[p]
           data == loc.batch[loc.i]
       IN \E createOk \in BOOLEAN :
            IF MappingFails(data) \/ ~createOk
            THEN LET next == [loc EXCEPT !.pc = "check", !.i = @ + 1, !.error_count = @ + 1]
                 IN /\ inflight' = Put(inflight, p, next)
                    /\ last' = StepOf(next)
                    /\ UNCHANGED <<activities, nextId>>
            ELSE LET activity == strava_data_to_entity(data, loc.cust, nextId + 1)
                     next == [loc EXCEPT !.pc = "check", !.i = @ + 1,
                                         !.synced_count = @ + 1,
                                         !.created = Append(@, activity.id)]
                 IN /\ activities' = put_item(activities, activity)
                    /\ nextId' = nextId + 1
                    /\ inflight' = Put(inflight, p, next)
                    /\ last' = StepOf(next)
    /\ UNCHANGED <<customers, connections, plans, days, now, upstream, issued, nextDay, ignored, disconnected, ops>>

\* after the loop of call p: update_last_sync on the customer it loaded,
\* customer_repository.update, the matching sweep, and the result
FinishSync(p) ==
    /\ p \in DOMAIN inflight
    /\ inflight[p].pc = "check"
    /\ inflight[p].i > Len(inflight[p].batch)
    /\ LET loc == inflight[p]
           sweep == match_activities_to_training_days(activities, loc.cust)
           next == [Done(loc, IF sweep.result = "raise" THEN "raised" ELSE "returned",
                         IF sweep.result = "raise" THEN "AttributeError" ELSE "")
                      EXCEPT !.matched_count = sweep.matched_count]
       IN /\ customers' = [customers EXCEPT ![loc.cust] = update_last_sync(loc.customer[1], now)]
          /\ activities' = sweep.table
          /\ inflight' = Put(inflight, p, next)
          /\ last' = [StepOf(next) EXCEPT !.fetched = TRUE]
    /\ UNCHANGED <<connections, plans, days, now, upstream, issued, nextId, nextDay, ignored, disconnected, ops>>

\* One worker, customer c1 connected with a short or a long token lifetime, and up
\* to two requests for refresh_access_token and sync_activities.
InitRefresh ==
    /\ \E life \in TokenLifetimes : Connected(life)
    /\ Planned(NoPlans)
    /\ upstream = <<[id |-> 101, start_date |-> <<1, 0>>]>>
    /\ NoActivities
    /\ Started
    /\ ops = 0

NextRefresh ==
    \/ \E p \in CallNames, op \in {"sync_activities", "refresh_access_token"},
          c \in CustomerIds : Begin(p, op, c)
    \/ \E p \in CallNames : RefreshDone(p)
    \/ \E p \in CallNames : ListDone(p)

SpecRefresh == InitRefresh /\ [][NextRefresh]_vars

\* Two workers, each with a connection of customer c1 in its store (a token that
\* needs no refresh), each serving one sync_activities request; upstream holds up
\* to MaxBatch activities.
InitCreate ==
    /\ Connected(7200)
    /\ Planned(NoPlans)
    /\ upstream \in Batches
    /\ NoActivities
    /\ Started
    /\ ops = 0

NextCreate ==
    \/ \E p \in CallNames, c \in CustomerIds : Begin(p, "sync_activities", c)
    \/ \E p \in CallNames : ListFetched(p)
    \/ \E p \in CallNames : CheckExisting(p)
    \/ \E p \in CallNames : CreateActivity(p)
    \/ \E p \in CallNames : FinishSync(p)

SpecCreate == InitCreate /\ [][NextCreate]_vars

Next ==
    \/ Tick
    \/ \E c \in CustomerIds : SyncActivities(c)

Spec == Init /\ [][Next]_vars

\* Both sync calls as the stored token ages.
NextToken ==
    \/ Tick
    \/ \E c \in CustomerIds : SyncActivities(c)
    \/ \E c \in CustomerIds, strava_activity_id \in StravaIds : SyncSingleActivity(c, strava_activity_id)

SpecToken == Init /\ [][NextToken]_vars

NextBatch == \E c \in CustomerIds : SyncActivities(c)

SpecBatch == InitBatch /\ [][NextBatch]_vars

NextConn ==
    \/ Restart
    \/ \E c \in CustomerIds : ExchangeCode(c)
    \/ \E c \in CustomerIds : Disconnect(c)
    \/ \E c \in CustomerIds : SyncActivities(c)
    \/ \E c \in CustomerIds, strava_activity_id \in StravaIds : SyncSingleActivity(c, strava_activity_id)

SpecConn == InitConn /\ [][NextConn]_vars

SpecHistory == InitHistory /\ [][NextConn]_vars

\* the errors the use cases raise as ValueError
ValueErrors == {"Customer not found", "Customer not connected to Strava", "Connection not found"}

\* error_handler_middleware: what the client gets for an exception that leaves the endpoint
error_handler_middleware(call) ==
    IF call.error \in ValueErrors
    THEN Response(400, call.error, <<>>)
    ELSE Response(500, "Internal server error", <<>>)

\* sync_strava_activities (POST /strava/sync): the answer to the customer whose
\* sync_activities call ended as the record call tells
sync_strava_activities(call) ==
    IF call.outcome = "returned"
    THEN Response(200, "", <<[synced_count |-> call.synced_count,
                              matched_count |-> call.matched_count,
                              error_count |-> call.error_count]>>)
    ELSE IF call.error \in ValueErrors
    THEN Response(400, call.error, <<>>)
    ELSE error_handler_middleware(call)

NextMatch ==
    \/ \E c \in CustomerIds : SyncActivities(c)
    \/ \E c \in CustomerIds, sid \in StravaIds : SyncSingleActivity(c, sid)
    \/ \E c \in CustomerIds : MatchActivities(c)
    \/ \E a \in activities, d \in days : MatchToTrainingDay(a, d)
    \/ \E a \in activities : Unmatch(a)
    \/ \E a \in activities : Ignore(a)

SpecMatch == InitMatch /\ [][NextMatch]_vars

NextPlans ==
    \/ \E k \in CoachIds, c \in CustomerIds, dates \in SeqsUpTo(PlanDates, 1) : CreatePlan(k, c, dates)
    \/ \E p \in PlanIds, k \in CoachIds, date \in PlanDates : AddTrainingDay(p, k, date)
    \/ \E p \in PlanIds, k \in CoachIds : DeletePlan(p, k)
    \/ \E c \in CustomerIds : SyncActivities(c)
    \/ \E c \in CustomerIds, sid \in StravaIds : SyncSingleActivity(c, sid)

SpecPlans == InitPlans /\ [][NextPlans]_vars

(***************************************************************************)
(* Properties.                                                             *)
(***************************************************************************)
\* a step that is one call of the given operation
CallStep(op) == ops' < ops /\ last'.op = op

\* a step of the sync and matching engine
EngineOps == {"sync_activities", "sync_single_activity", "match_activities_to_training_days"}
EngineStep == ops' < ops /\ last'.op \in EngineOps

\* the persisted activities of a customer with an external id
Stored(table, customer_id, strava_activity_id) ==
    {a \in table : a.customer_id = customer_id /\ a.strava_activity_id = strava_activity_id}

EventNames(call) == {call.events[i].ev : i \in 1..Len(call.events)}

\* --- C1 ---------------------------------------------------------------
\* C1 (Idempotent sync), as stated: when sync_activities fetched and persisted the
\* upstream list and is called again for the same customer against the same list,
\* the second call leaves the persisted activity set as it was and returns
\* synced_count = 0.
C1_IdempotentSync ==
    [][(/\ CallStep("sync_activities")
        /\ last.op = "sync_activities" /\ last.fetched /\ last.fails = {}
        /\ last'.fetched /\ last'.cust = last.cust /\ last'.batch = last.batch)
       => (/\ activities' = activities
           /\ last'.outcome = "returned"
           /\ last'.synced_count = 0)]_vars

\* --- C2 ---------------------------------------------------------------
\* C2 (Match invariant), as stated: in every reachable state every activity is
\* MATCHED if and only if its training-day pointer is non-null.
C2_MatchInvariant ==
    \A a \in activities : (a.match_status = MATCHED) <=> (a.training_day_id # None)

C4_ItemOk(call, i) == call.batch[i].start_date # BadDate /\ i \notin call.fails

\* item i is new: no activity with its external id was persisted before the call,
\* and no earlier item of the batch with that id was persisted by the call
C4_ItemNew(table, call, i) ==
    /\ Stored(table, call.cust, call.batch[i].id) = {}
    /\ \A j \in 1..(i - 1) : call.batch[j].id = call.batch[i].id => ~C4_ItemOk(call, j)

C4_Persisted(table, call) ==
    {i \in 1..Len(call.batch) : C4_ItemNew(table, call, i) /\ C4_ItemOk(call, i)}

C4_Failed(table, call) ==
    {i \in 1..Len(call.batch) : C4_ItemNew(table, call, i) /\ ~C4_ItemOk(call, i)}

\* C4 (Partial-failure isolation): in every call of sync_activities that fetched a
\* batch, every new item that maps and whose create succeeds is persisted whatever
\* items failed before it, nothing persisted before is lost, synced_count is the
\* number of new items persisted and error_count the number of items that failed.
C4_PartialFailureIsolation ==
    [][(CallStep("sync_activities") /\ last'.fetched) =>
        /\ \A i \in C4_Persisted(activities, last') :
             \E a \in activities' :
               /\ a.customer_id = last'.cust
               /\ a.strava_activity_id = last'.batch[i].id
               /\ a.start_date = last'.batch[i].start_date
        /\ \A a \in activities : \E b \in activities' : ItemKey(b) = ItemKey(a)
        /\ last'.synced_count = Cardinality(C4_Persisted(activities, last'))
        /\ last'.synced_count =
             Cardinality({ItemKey(a) : a \in activities'} \ {ItemKey(a) : a \in activities})
        /\ last'.error_count = Cardinality(C4_Failed(activities, last'))]_vars

\* C4's case: the first item of a batch failed and a later item was persisted.
C4_Witness ==
    /\ last.op = "sync_activities" /\ last.fetched
    /\ Len(last.batch) >= 2
    /\ ~C4_ItemOk(last, 1)
    /\ last.error_count >= 1
    /\ last.synced_count >= 1
    /\ \E a \in activities : a.id \in {last.created[i] : i \in 1..Len(last.created)}

\* --- C5 ---------------------------------------------------------------
\* the training days of a customer in lookup order
C5_Lookup(customer_id) == DaysInLookupOrder(get_by_customer_id(customer_id))

\* C5 (First-match-wins), as stated: when a single-activity match is made for a new
\* activity and the customer has two or more training days of the activity's date
\* that no activity points at, the match returns true and the activity is MATCHED
\* to the first of them in lookup order.
C5_FirstMatchWins ==
    (/\ last.op = "sync_single_activity"
     /\ last.attempted # {})
    => LET ds == C5_Lookup(last.cust)
           same == {i \in 1..Len(ds) : ds[i].date = last.batch[1].start_date[1]}
           free == \A i \in same : \A b \in activities :
                     ItemKey(b) \in last.attempted \/ b.training_day_id # ds[i].id
       IN (Cardinality(same) >= 2 /\ free)
          => /\ last.match_result = "true"
             /\ \E a \in activities :
                  /\ ItemKey(a) \in last.attempted
                  /\ a.match_status = MATCHED
                  /\ \E i \in same : /\ a.training_day_id = ds[i].id
                                     /\ \A j \in same : i <= j

\* --- C6 ---------------------------------------------------------------
\* the call failed with msg before any external call and changed no record
C6_Rejected(msg) ==
    /\ last'.outcome = "raised"
    /\ last'.error = msg
    /\ last'.events = <<>>
    /\ customers' = customers
    /\ connections' = connections
    /\ activities' = activities

\* C6 (Fail-fast preconditions): a call of sync_activities fails with 'Customer not
\* found' for an absent customer, else with 'Customer not connected to Strava' for
\* a customer without athlete id, else with 'Connection not found' when the store
\* has no connection of the customer; each time without an external call and
\* without changing a customer, connection or activity record.
C6_FailFastPreconditions ==
    [][CallStep("sync_activities") =>
        LET c == last'.cust
        IN IF c \notin DOMAIN customers
           THEN C6_Rejected("Customer not found")
           ELSE IF customers[c].strava_athlete_id = None
           THEN C6_Rejected("Customer not connected to Strava")
           ELSE IF c \notin DOMAIN connections
           THEN C6_Rejected("Connection not found")
           ELSE last'.error \notin {"Customer not found",
                                    "Customer not connected to Strava",
                                    "Connection not found"}]_vars

\* C6's case: a customer with an athlete id whose connection the store has lost.
C6_Witness ==
    /\ last.op = "sync_activities"
    /\ last.error = "Connection not found"
    /\ last.cust \in DOMAIN customers
    /\ customers[last.cust].strava_athlete_id # None

\* --- C7 ---------------------------------------------------------------
\* C7 (Refresh-before-fetch): in a call of sync_activities that loaded a connection
\* which needs refresh, the first external call is the refresh with the stored
\* refresh token; when the list is fetched, the tokens were replaced (all three
\* from the refresh response) and the connection stored before the fetch, and the
\* fetch uses the new access token. When the connection needs no refresh, there is
\* no refresh call and the stored connection is unchanged.
C7_RefreshBeforeFetch ==
    [][(/\ CallStep("sync_activities")
        /\ last'.cust \in DOMAIN customers
        /\ customers[last'.cust].strava_athlete_id # None
        /\ last'.cust \in DOMAIN connections) =>
        LET c == last'.cust
            ev == last'.events
        IN IF connections[c].expires_at <= now + RefreshBuffer
           THEN /\ Len(ev) >= 1
                /\ ev[1] = Ev("refresh_token", connections[c].refresh_token)
                /\ ("get_athlete_activities" \in EventNames(last')) =>
                     /\ Len(ev) = 4
                     /\ ev[2].ev = "update_tokens"
                     /\ ev[3].ev = "store_connection"
                     /\ ev[4].ev = "get_athlete_activities"
                     /\ connections'[c].access_token = AccessToken(issued')
                     /\ connections'[c].refresh_token = RefreshToken(issued')
                     /\ connections'[c].access_token # connections[c].access_token
                     /\ connections'[c].refresh_token # connections[c].refresh_token
                     /\ connections'[c].expires_at \in {now + l : l \in TokenLifetimes}
                     /\ ev[3].token = connections'[c].access_token
                     /\ ev[4].token = connections'[c].access_token
           ELSE /\ "refresh_token" \notin EventNames(last')
                /\ connections'[c] = connections[c]
                /\ \A i \in 1..Len(ev) :
                     ev[i].ev = "get_athlete_activities"
                     => ev[i].token = connections[c].access_token]_vars

\* C7's case: a sync that refreshed the tokens and then fetched the list.
C7_Witness ==
    /\ last.op = "sync_activities"
    /\ last.fetched
    /\ {"refresh_token", "store_connection", "get_athlete_activities"} \subseteq EventNames(last)

\* --- C8 ---------------------------------------------------------------
\* C8 (Refresh failure aborts sync): when the refresh call of a sync_activities
\* fails, the call raises, the connection keeps its tokens and expiry, the list is
\* not fetched, no activity is persisted, no matching runs and no customer record
\* (so no last-sync timestamp) changes.
C8_RefreshFailureAborts ==
    [][(CallStep("sync_activities") /\ last'.failed = "refresh_token") =>
        /\ last'.outcome = "raised"
        /\ connections' = connections
        /\ activities' = activities
        /\ customers' = customers
        /\ ~last'.fetched
        /\ "get_athlete_activities" \notin EventNames(last')
        /\ last'.attempted = {}
        /\ last'.matched_count = 0]_vars

\* C8's case: a sync whose refresh call failed, for a customer who has an activity
\* upstream that is not persisted.
C8_Witness ==
    /\ last.op = "sync_activities"
    /\ last.failed = "refresh_token"
    /\ Len(upstream) > 0
    /\ activities = {}

\* --- C9 ---------------------------------------------------------------
\* C9 (sync_single_activity updates in place), as stated: after a call that
\* returned, an activity that existed for (customer, external id) is still the only
\* record for it and carries the same internal id; when none existed, one record
\* was created and its match attempted.
C9_UpdateInPlace ==
    [][(CallStep("sync_single_activity") /\ last'.outcome = "returned") =>
        LET before == Stored(activities, last'.cust, last'.batch[1].id)
            after == Stored(activities', last'.cust, last'.batch[1].id)
        IN /\ before # {} =>
                /\ Cardinality(after) = 1
                /\ \A a \in after : \E b \in before : a.id = b.id
           /\ before = {} =>
                /\ Cardinality(after) = 1
                /\ \A a \in after : last'.attempted = {ItemKey(a)}]_vars

\* --- C10 --------------------------------------------------------------
\* C10 (Ignored activities stay out of matching), as stated: after any call of
\* sync_activities, sync_single_activity or match_activities_to_training_days, no
\* activity that was ignored and not explicitly unmatched since is MATCHED or was
\* attempted by the call.
C10_IgnoredStayOut ==
    (last.op \in EngineOps)
    => \A a \in activities :
         ItemKey(a) \in ignored => (a.match_status # MATCHED /\ ItemKey(a) \notin last.attempted)

\* --- C11 --------------------------------------------------------------
\* C11 (Webhook verification handshake): for every mode, verify token and
\* challenge the GET handler answers 200 with the body {"hub.challenge": challenge},
\* the challenge unchanged, exactly when the mode is "subscribe" and the token is
\* the configured secret; any other mode is answered 400, and a wrong token with
\* mode "subscribe" 403.
C11_WebhookHandshake ==
    (last.op = "verify_strava_webhook") =>
        LET q == last.request
            r == last.response
            accepted == q.hub_mode = "subscribe" /\ q.hub_verify_token = "STRAVA_WEBHOOK_SECRET"
        IN /\ (r.status_code = 200) <=> accepted
           /\ (r.body # <<>>) <=> accepted
           /\ accepted => r.body = <<[hub_challenge |-> q.hub_challenge]>>
           /\ (q.hub_mode # "subscribe") => r.status_code = 400
           /\ (q.hub_mode = "subscribe" /\ ~accepted) => r.status_code = 403

\* C11's case: a wrong mode sent together with a wrong token is answered 400.
C11_Witness ==
    /\ last.op = "verify_strava_webhook"
    /\ last.request.hub_mode = "unsubscribe"
    /\ last.request.hub_verify_token = "stale-secret"
    /\ last.response.status_code = 400

\* --- C12 --------------------------------------------------------------
\* C12 (Webhook event classification): every well-formed event is answered 200; the
\* answer reports it as received exactly when object_type is "activity" and
\* aspect_type is "create" or "update", and as ignored otherwise.
C12_EventClassification ==
    (last.op = "handle_strava_webhook") =>
        LET e == last.request
            r == last.response
            actionable == e.object_type = "activity" /\ e.aspect_type \in {"create", "update"}
        IN /\ r.status_code = 200
           /\ Len(r.body) = 1
           /\ r.body[1].status \in {"received", "ignored"}
           /\ (r.body[1].status = "received") <=> actionable
           /\ actionable => (r.body[1].activity_id = e.object_id
                             /\ r.body[1].event_type = e.aspect_type)

\* C12's case: a delete event of an activity is acknowledged as ignored.
C12_Witness ==
    /\ last.op = "handle_strava_webhook"
    /\ last.request.object_type = "activity"
    /\ last.request.aspect_type = "delete"
    /\ last.response.body[1].status = "ignored"

\* --- C13 --------------------------------------------------------------
\* C13 (Refresh buffer): for every expiry, time and buffer, needs_refresh(buffer) is
\* true exactly when now + buffer >= expires_at (with the default buffer of 3600 s,
\* expiry in 1800 s gives true and expiry in 7200 s false), and is_expired is true
\* exactly when now >= expires_at.
C13_RefreshBuffer ==
    (last.op = "needs_refresh") =>
        LET q == last.request
            r == last.response
        IN /\ r.needs_refresh <=> (q.now + q.buffer_seconds >= q.expires_at)
           /\ r.needs_refresh_default <=> (q.now + 3600 >= q.expires_at)
           /\ r.is_expired <=> (q.now >= q.expires_at)
           /\ (q.expires_at - q.now = 1800) => r.needs_refresh_default
           /\ (q.expires_at - q.now = 7200) => ~r.needs_refresh_default

\* C13's case: a token that expires exactly at the end of the default buffer is
\* refreshed and is not yet expired.
C13_Witness ==
    /\ last.op = "needs_refresh"
    /\ last.request.buffer_seconds = 3600
    /\ last.request.expires_at = last.request.now + 3600
    /\ last.response.needs_refresh
    /\ ~last.response.is_expired

\* --- C14 --------------------------------------------------------------
\* C14 (Disconnect is best-effort on revocation): every disconnect of an existing
\* customer returns, leaves the customer without athlete id, connected-at and
\* last-sync, and leaves no stored connection for her, whether the revocation call
\* succeeded, failed (the failure is swallowed) or there was no connection.
C14_Disconnect ==
    (CallStep("disconnect") /\ last'.cust \in DOMAIN customers) =>
        /\ last'.outcome = "returned"
        /\ last'.error = ""
        /\ customers'[last'.cust].strava_athlete_id = None
        /\ customers'[last'.cust].strava_connected_at = NoTime
        /\ customers'[last'.cust].strava_last_sync = NoTime
        /\ last'.cust \notin DOMAIN connections'

C14_BestEffortDisconnect == [][C14_Disconnect]_vars

\* C14's case: a disconnect whose revocation call failed has returned and the
\* customer's connection is gone.
C14_Witness ==
    /\ last.op = "disconnect"
    /\ last.swallowed
    /\ last.outcome = "returned"
    /\ last.cust \notin DOMAIN connections
    /\ customers[last.cust].strava_athlete_id = None

\* --- C15 --------------------------------------------------------------
\* a sync_activities or sync_single_activity call of a customer whose disconnect
\* completed and who has not exchanged a code since
C15_SyncAfterDisconnect ==
    /\ CallStep("sync_activities") \/ CallStep("sync_single_activity")
    /\ last'.cust \in disconnected

\* C15 (Disconnect ends sync ability but keeps history): a disconnect leaves every
\* persisted activity as it was, and every sync_activities or sync_single_activity
\* of a disconnected customer fails with the not-connected error and leaves the
\* activities as they were, until an exchange_code succeeds for her.
C15_DisconnectKeepsHistory ==
    [][ /\ CallStep("disconnect") => activities' = activities
        /\ C15_SyncAfterDisconnect =>
             /\ last'.outcome = "raised"
             /\ last'.error = "Customer not connected to Strava"
             /\ last'.events = <<>>
             /\ activities' = activities ]_vars

\* C15's case: a disconnected customer with a stored activity asked for a sync
\* and was refused, the activity still stored.
C15_Witness ==
    /\ last.op \in {"sync_activities", "sync_single_activity"}
    /\ last.cust \in disconnected
    /\ last.error = "Customer not connected to Strava"
    /\ FirstActivity \in activities
    /\ FirstActivity.customer_id = last.cust

\* --- C16 --------------------------------------------------------------
\* C16 (Sync endpoint error mapping), as stated: when a manual sync cannot fetch
\* at all, POST /strava/sync answers with a 400-class status whose detail names
\* the reason, and the three reasons (not connected, connection missing, upstream
\* failure of the refresh or the list call) have different details.
C16_SyncErrorMapping ==
    (last.op = "sync_activities" /\ last.outcome = "raised" /\ ~last.fetched
       /\ last.cust \in DOMAIN customers) =>
        LET r == sync_strava_activities(last)
            upstreamFailure == last.failed \in {"refresh_token", "get_athlete_activities"}
        IN /\ r.status_code \in 400..499
           /\ r.detail \notin {"", "Internal server error"}
           /\ (r.detail = "Customer not connected to Strava")
                <=> (customers[last.cust].strava_athlete_id = None)
           /\ (r.detail = "Connection not found")
                <=> (~upstreamFailure /\ customers[last.cust].strava_athlete_id # None)

\* --- C17 --------------------------------------------------------------
\* C17 (Pace derivation), as stated: for every distance and moving time, the pace
\* is moving_time(min) / distance(km) when distance > 0 and is undefined exactly
\* when distance <= 0.
C17_PaceDerivation ==
    (last.op = "calculate_pace_min_per_km") =>
        LET q == last.request
            r == last.response
        IN /\ (~r.defined) <=> (q.distance <= 0)
           /\ (q.distance > 0) =>
                /\ r.den # 0
                /\ r.num * (q.distance * 60) = r.den * (q.moving_time * 1000)

\* --- C18 --------------------------------------------------------------
\* a registration request was answered: its data and whether the users table held
\* its email or its document number before
C18_Fresh ==
    /\ get_by_email(customers, last'.request.email) = {}
    /\ get_by_document_number(customers, last'.request.document_number) = {}

C18_Stored ==
    \E id \in DOMAIN customers' \ DOMAIN customers :
        /\ customers'[id].email = last'.request.email
        /\ customers'[id].name = last'.request.name
        /\ customers'[id].document_number = last'.request.document_number
        /\ last'.response.body = <<[id |-> id, email |-> last'.request.email,
                                    name |-> last'.request.name,
                                    document_number |-> last'.request.document_number]>>

C18_Unique ==
    \A c1 \in DOMAIN customers, c2 \in DOMAIN customers :
        (c1 # c2) => /\ customers[c1].email # customers[c2].email
                     /\ customers[c1].document_number # customers[c2].document_number

\* C18 (Customer registration), as stated: a registration is answered 201 with the
\* stored record (the submitted email, name and document number, a new id) exactly
\* when neither its email nor its document number is registered; otherwise it is
\* rejected and the users table is unchanged; so no two customers ever share an
\* email or a document number.
C18_Registration ==
    [][ (ops' < ops /\ last'.op = "register_customer") =>
          /\ (last'.response.status_code = 201) <=> C18_Fresh
          /\ C18_Fresh => C18_Stored
          /\ ~C18_Fresh => /\ last'.response.status_code \in 400..499
                           /\ customers' = customers
          /\ C18_Unique' ]_vars

\* --- C19 --------------------------------------------------------------
\* both sync_activities calls went through their batch loops without an error
C19_BothSynced ==
    /\ DOMAIN inflight = CallNames
    /\ \A p \in CallNames : /\ inflight[p].pc = "done"
                            /\ inflight[p].outcome = "returned"
                            /\ inflight[p].error_count = 0
                            /\ inflight[p].cust = "c1"

\* the external ids of the upstream list
C19_UpstreamIds == {upstream[i].id : i \in 1..Len(upstream)}

\* C19 (No duplicate create under concurrent syncs), as stated: when two
\* sync_activities calls of one customer run interleaved over the same upstream
\* list, every new external id is created by exactly one of them (the synced_counts
\* sum to the number of distinct new ids) and one record persists per id.
C19_NoDuplicateCreate ==
    C19_BothSynced =>
        /\ inflight["r1"].synced_count + inflight["r2"].synced_count
             = Cardinality(C19_UpstreamIds)
        /\ \A sid \in C19_UpstreamIds :
             /\ Cardinality({a \in activities : a.customer_id = "c1"
                                                 /\ a.strava_activity_id = sid}) = 1
             /\ Cardinality({p \in CallNames :
                               \E k \in 1..Len(inflight[p].created) :
                                  \E a \in activities : /\ a.id = inflight[p].created[k]
                                                        /\ a.strava_activity_id = sid}) = 1

\* --- C20 --------------------------------------------------------------
\* the calls that have submitted a refresh token, and those still waiting for the answer
C20_Submitted == {p \in DOMAIN inflight : inflight[p].submitted # None}
C20_InFlight == {p \in DOMAIN inflight : inflight[p].pc = "refresh"}

\* C20 (Token refresh is a per-customer critical section), as stated: at any time
\* at most one refresh call of a customer is in flight, and no stored refresh token
\* is submitted to the external source by two different calls.
C20_RefreshCriticalSection ==
    \A p \in DOMAIN inflight, q \in DOMAIN inflight :
        (p # q /\ inflight[p].cust = inflight[q].cust) =>
            /\ ~({p, q} \subseteq C20_InFlight)
            /\ ({p, q} \subseteq C20_Submitted) => inflight[p].submitted # inflight[q].submitted

\* --- C21 --------------------------------------------------------------
\* C21 (Last-sync timestamp): every sync_activities call that fetched the activity
\* list leaves the customer's last-sync timestamp at the time of the call in the
\* users table, whatever the number of items of the batch that failed and even
\* when the matching that follows raises.
C21_LastSync ==
    [][ (CallStep("sync_activities") /\ last'.fetched) =>
            customers'[last'.cust].strava_last_sync = now ]_vars

\* C21's case: every item of a non-empty batch failed and the last sync is written.
C21_Witness ==
    /\ last.op = "sync_activities"
    /\ last.fetched
    /\ Len(last.batch) > 0
    /\ last.error_count = Len(last.batch)
    /\ customers[last.cust].strava_last_sync = now

\* --- C23 --------------------------------------------------------------
\* C23 (Upstream fetch failure leaves persisted state intact): a sync_activities
\* call whose activity-list call failed raises the error, leaves the activities and
\* the customer (her last-sync timestamp included) as they were and runs no
\* matching; if it refreshed the tokens before, the stored connection keeps the
\* new tokens, otherwise the stored connection is unchanged.
C23_FetchFailure ==
    [][ (CallStep("sync_activities") /\ last'.failed = "get_athlete_activities") =>
          LET c == last'.cust
          IN /\ last'.outcome = "raised"
             /\ last'.error = "HTTPStatusError"
             /\ ~last'.fetched
             /\ activities' = activities
             /\ nextId' = nextId
             /\ customers' = customers
             /\ last'.attempted = {}
             /\ last'.matched_count = 0
             /\ IF "refresh_token" \in EventNames(last')
                THEN /\ connections'[c].access_token = AccessToken(issued')
                     /\ connections'[c].refresh_token = RefreshToken(issued')
                     /\ connections'[c].refresh_token # connections[c].refresh_token
                     /\ issued' = issued + 1
                ELSE connections' = connections ]_vars

\* C23's case: the list call failed after a refresh, and the stored connection holds
\* the tokens of the refresh.
C23_Witness ==
    /\ last.op = "sync_activities"
    /\ last.failed = "get_athlete_activities"
    /\ "refresh_token" \in EventNames(last)
    /\ connections[last.cust].access_token = AccessToken(issued)
    /\ issued > 1
    /\ customers[last.cust].strava_last_sync = NoTime

\* --- C24 --------------------------------------------------------------
\* the requests for activity data
C24_FetchNames == {"get_athlete_activities", "get_activity_detail"}

\* C24 (Valid credential before every fetch), as stated: every request for activity
\* data sent by sync_activities or sync_single_activity carries the access token of
\* the stored connection, which is not expired at that moment, and a connection
\* that needed refresh was refreshed before the request.
C24_ValidCredential ==
    [][ (CallStep("sync_activities") \/ CallStep("sync_single_activity")) =>
          \A i \in 1..Len(last'.events) :
             (last'.events[i].ev \in C24_FetchNames) =>
                LET c == last'.cust
                IN /\ last'.events[i].token = connections'[c].access_token
                   /\ ~is_expired(connections'[c], now)
                   /\ needs_refresh(connections[c], now) =>
                        \E j \in 1..(i - 1) : last'.events[j].ev = "refresh_token" ]_vars

\* the training days of the plans of a customer
DaysOfCustomer(planTable, dayTable, customer_id) ==
    {d \in dayTable : /\ d.training_plan_id \in DOMAIN planTable
                      /\ planTable[d.training_plan_id].customer_id = customer_id}

C25_Available(table, activity) ==
    {d \in DaysOfCustomer(plans, days, activity.customer_id) :
        /\ d.date = activity.start_date[1]
        /\ \A b \in table : b.training_day_id # d.id}

C29_NoDanglingPointer ==
    \A a \in activities :
        a.match_status = MATCHED =>
            \E d \in DaysOfCustomer(plans, days, a.customer_id) : d.id = a.training_day_id

\* no call of the plan use case or of the engine leaves a MATCHED activity
C29_NothingMatched == \A a \in activities : a.match_status # MATCHED

\* delete_plan removed the training days of a customer who has stored activities
C29_DeletedUnderActivities ==
    /\ last.op = "delete_plan"
    /\ last.outcome = "returned"
    /\ \E a \in activities : a.customer_id = last.cust
    /\ nextDay > Cardinality(days)

\* C26: a POST event, actionable or not, is only answered: the activities, customers
\* and connections are as before it, no token was issued and nothing was fetched or
\* stored, and what the handler leaves is the answer alone.
C26_AcknowledgeOnly ==
    [][ last'.op = "handle_strava_webhook" =>
            /\ UNCHANGED <<activities, customers, connections, plans, days>>
            /\ UNCHANGED <<issued, nextId, upstream, ops>>
            /\ last' = Answer("handle_strava_webhook", last'.request,
                              handle_strava_webhook(last'.request)) ]_vars

\* C26's case: an actionable event for an activity that is not stored, owned by the
\* athlete of a connected customer, was answered "received".
C26_Witness ==
    /\ last.op = "handle_strava_webhook"
    /\ last.response.body[1].status = "received"
    /\ \E c \in DOMAIN connections :
         /\ customers[c].strava_athlete_id = last.request.owner_id
         /\ Stored(activities, c, last.request.object_id) = {}

\* C27: a customer has a bound athlete id exactly when the connection store holds a
\* connection for that customer, and that connection's athlete id is the customer's
\* (the store is keyed by customer id, so it holds at most one per customer).
C27_Consistency ==
    \A c \in DOMAIN customers :
        /\ (customers[c].strava_athlete_id # None) <=> (c \in DOMAIN connections)
        /\ c \in DOMAIN connections =>
             connections[c].athlete_id = customers[c].strava_athlete_id

\* within one process: a call of exchange_code or disconnect that starts in a
\* consistent state ends in one, whether its external call succeeds or fails
C27_StepsPreserve ==
    [][ (C27_Consistency /\ (CallStep("exchange_code") \/ CallStep("disconnect")))
            => C27_Consistency' ]_vars

\* C28: when sync_single_activity updates an activity that exists for the customer,
\* the item it wrote has the match status, the training-day pointer and the creation
\* timestamp that the existing activity had before the call.
C28_RefetchKeepsMatch ==
    [][ (/\ CallStep("sync_single_activity")
         /\ last'.outcome = "returned"
         /\ last'.created = <<>>)
        => LET existing == get_by_strava_id(activities, last'.batch[1].id, last'.cust)[1]
           IN \A a \in activities' :
                ItemKey(a) = last'.key
                => /\ a.id = existing.id
                   /\ a.match_status = existing.match_status
                   /\ a.training_day_id = existing.training_day_id
                   /\ a.created_at = existing.created_at ]_vars

\* the requester of a get_activity_by_id call may see the activity: they are the
\* customer who owns it, or the coach now assigned to that customer
C30_MaySee(request, activity) ==
    \/ /\ request.requesting_user_type = "customer"
       /\ request.requesting_user_id = activity.customer_id
    \/ /\ request.requesting_user_type = "coach"
       /\ activity.customer_id \in DOMAIN customers
       /\ customers[activity.customer_id].coach_id = request.requesting_user_id

\* C30: get_activity_by_id answers with the activity of the requested id when the
\* requester is its owner or the coach now assigned to its owner, and with nothing
\* for every other requester, for any other user type and for an id that is not stored.
C30_AccessControl ==
    last.op = "get_activity_by_id" =>
        LET found == {a \in activities : a.id = last.request.activity_id}
        IN IF \E a \in found : C30_MaySee(last.request, a)
           THEN \E a \in found : /\ C30_MaySee(last.request, a)
                                 /\ last.response = <<entity_to_dto(a)>>
           ELSE last.response = <<>>

\* C30's case: the coach a customer was assigned to before another coach took the
\* customer over asks for the customer's activity and gets nothing.
C30_Witness ==
    /\ last.op = "get_activity_by_id"
    /\ last.request.requesting_user_type = "coach"
    /\ last.request.requesting_user_id = RegisteredCustomers["c1"].coach_id
    /\ \E a \in activities : /\ a.id = last.request.activity_id
                             /\ a.customer_id = "c1"
                             /\ customers["c1"].coach_id # RegisteredCustomers["c1"].coach_id
    /\ last.response = <<>>

====
